---- MODULE Spec2Model ----
(***************************************************************************)
(* Model of the adverse-media browser worker (src/unnamed/part_003): the   *)
(* POST /tasks handler, the in-process queue driver (createMemoryDriver)   *)
(* and the BullMQ queue/worker the service configures when REDIS_URL is    *)
(* not a memory:// address; the access control middleware, the health,     *)
(* status and artifact routes; the steps of captureSearch on the artifact  *)
(* store; and the cleanup script (src/docker/puppeteer/cleanup.js) that    *)
(* sweeps that store; the metrics middleware and registry; the shared      *)
(* browser of getBrowser and the pages captureSearch opens on it; the      *)
(* placeholder capture of PUPPETEER_FAKE_MODE; and shutdown().             *)
(*                                                                         *)
(* BullMQ itself is a library outside the repository.  Its part of the     *)
(* model follows the job lifecycle the service configures at lines 295-306 *)
(* (attempts: maxAttempts, exponential backoff, Worker concurrency): a job *)
(* is waiting, is moved to active by a worker with a free slot (which      *)
(* counts the attempt), and on a thrown error is moved to delayed while    *)
(* attemptsMade < attempts, to failed otherwise; the scheduler promotes a  *)
(* delayed job back to waiting.                                            *)
(***************************************************************************)
EXTENDS Integers, Sequences, FiniteSets, TLC

\* ------------------------------------------------------------------ bounds
MaxRequests == 2        \* POST /tasks requests in one run of the model
MaxAttemptsCfg == 3     \* SCRAPE_MAX_ATTEMPTS ranges over 0..MaxAttemptsCfg
MaxConcurrencyCfg == 2  \* SCRAPE_CONCURRENCY ranges over 1..MaxConcurrencyCfg
MaxClock == 2           \* the clock runs over the hours 0..MaxClock
MaxRetention == 1       \* ARTIFACT_RETENTION_HOURS ranges over 0..MaxRetention
MaxSweeps == 2          \* runs of the cleanup script in one run of the model
MaxCaptures == 1        \* jobs submitted in one run of CaptureSpec

VARIABLES
  useMemoryQueue,   \* line 283: REDIS_URL starts with memory://
  maxAttempts,      \* line 32
  concurrency,      \* line 31
  jobs,             \* the job records, by id (the Map of line 221 / the Redis hashes)
  uuid,             \* ids handed out so far (randomUUID / the Redis id counter)
  immediates,       \* callbacks queued by setImmediate, in order (memory driver)
  waitList,         \* the BullMQ wait list, oldest first
  running,          \* per job id: invocations of the processor not yet settled
  thrown,           \* per job id: attempts of the processor that have thrown
  inflight,         \* ids whose queue.add has resolved in Redis, 202 not yet sent
  requests,         \* POST /tasks requests received so far
  responses,        \* the responses sent to POST /tasks, in order
  serviceToken,     \* lines 38-39: the shared secret, undefined when none resolves
  allowAuthorizationHeader, \* line 41
  ready,            \* line 309
  exchange,         \* the last request answered on another route, with its answer
  fetched,          \* GET /tasks/:id handlers suspended between getJob and getState
  fs,               \* the file system below the artifact root: path -> [kind, mtime]
  now,              \* Date.now(), in hours
  retentionHours,   \* line 34 / cleanup.js line 5
  capture,          \* per job id: how far the running captureSearch call has got
  sweeps,           \* runs of cleanup.js so far
  fakeMode,         \* line 37: PUPPETEER_FAKE_MODE is 1
  browserPromise,   \* line 109: the launch whose promise is kept, 0 for undefined
  browsers,         \* the browsers launched so far, in order, with their state
  pages,            \* the pages opened and not closed
  phase             \* lines 455-475: how far shutdown has got

vars == <<useMemoryQueue, maxAttempts, concurrency, jobs, uuid, immediates,
          waitList, running, thrown, inflight, requests, responses,
          serviceToken, allowAuthorizationHeader, ready, exchange, fetched,
          fs, now, retentionHours, capture, sweeps,
          fakeMode, browserPromise, browsers, pages, phase>>

config == <<useMemoryQueue, maxAttempts, concurrency>>

\* the access control and the health flag
http == <<serviceToken, allowAuthorizationHeader, ready, exchange, fetched>>

\* the artifact store, the clock and the captures in progress
store == <<fs, now, retentionHours, capture, sweeps>>

\* the browser session manager and the life of the process
session == <<fakeMode, browserPromise, browsers, pages, phase>>

others == <<http, store, session>>

\* ------------------------------------------------------------- JS values
\* A JSON value of a request body.  A number is int + (frac ? 1/2 : 0); a
\* string is a sequence of one-character strings.
JSVal(t, i, f, s) == [t |-> t, int |-> i, frac |-> f, s |-> s]
Undefined == JSVal("undefined", 0, FALSE, <<>>)
Null == JSVal("null", 0, FALSE, <<>>)
Bool(b) == JSVal("boolean", IF b THEN 1 ELSE 0, FALSE, <<>>)
Num(i) == JSVal("number", i, FALSE, <<>>)
NumHalf(i) == JSVal("number", i, TRUE, <<>>)
Str(s) == JSVal("string", 0, FALSE, s)

TypeOf(v) == IF v.t = "null" THEN "object" ELSE v.t

\* JS truthiness: undefined, null, false, 0 and "" are falsy.
Truthy(v) ==
  CASE v.t = "undefined" -> FALSE
    [] v.t = "null" -> FALSE
    [] v.t = "boolean" -> v.int = 1
    [] v.t = "number" -> ~(v.int = 0 /\ ~v.frac)
    [] v.t = "string" -> Len(v.s) > 0
    [] OTHER -> TRUE

WhiteSpace == {" ", "\t", "\n"}

RECURSIVE TrimStart(_)
TrimStart(s) ==
  IF s = <<>> THEN <<>>
  ELSE IF Head(s) \in WhiteSpace THEN TrimStart(Tail(s)) ELSE s

RECURSIVE TrimEnd(_)
TrimEnd(s) ==
  IF s = <<>> THEN <<>>
  ELSE IF s[Len(s)] \in WhiteSpace THEN TrimEnd(SubSeq(s, 1, Len(s) - 1)) ELSE s

\* String.prototype.trim
Trim(s) == TrimEnd(TrimStart(s))

\* ------------------------------------------------------------- POST /tasks
defaultMaxArticles == Num(5)

\* mutant of QueryRejected: the query is not trimmed before the test
QueryRejectedUntrimmed(query) ==
  \/ ~Truthy(query)
  \/ TypeOf(query) # "string"

\* line 379: !query || typeof query !== 'string' || !query.trim()
QueryRejected(query) ==
  \/ ~Truthy(query)
  \/ TypeOf(query) # "string"
  \/ ~Truthy(Str(Trim(query.s)))

\* Math.min(x, 20) and Math.max(1, x) on a number int + frac/2
MathMin20(x) == IF x.int >= 20 THEN Num(20) ELSE x
MathMax1(x) == IF x.int < 1 THEN Num(1) ELSE x

\* line 385
ClampMaxArticles(maxArticles) ==
  IF TypeOf(maxArticles) = "number"
  THEN MathMax1(MathMin20(maxArticles))
  ELSE defaultMaxArticles

\* line 378: a field of req.body, undefined when the body does not hold it
Field(body, name) == IF name \in DOMAIN body THEN body[name] ELSE Undefined

\* x || y
Or(x, y) == IF Truthy(x) THEN x ELSE y

\* 'en-US' and {}; an object is written with the sequence of its keys
enUS == Str(<<"e", "n", "-", "U", "S">>)
Object(keys) == JSVal("object", 0, FALSE, keys)

\* lines 382-387: the data handed to queue.add
JobData(body) ==
  [query |-> body.query,
   locale |-> Or(Field(body, "locale"), enUS),
   maxArticles |-> ClampMaxArticles(body.maxArticles),
   metadata |-> Or(Field(body, "metadata"), Object(<<>>))]

\* The request bodies the model submits.
QueryInputs ==
  { Undefined, Null, Num(0), Num(7), Bool(TRUE),
    Str(<<>>), Str(<<" ">>), Str(<<"\t", " ">>),
    Str(<<"a">>), Str(<<" ", "a", " ">>) }

MaxArticlesInputs ==
  { Undefined, Str(<<"7">>), Num(0 - 3), Num(0), Num(5), NumHalf(2), Num(20), Num(21) }

Bodies ==
  [query : QueryInputs, maxArticles : {Undefined}]
    \cup [query : {Str(<<"a">>)}, maxArticles : MaxArticlesInputs]

\* one accepted and one rejected body
QueueBodies ==
  { [query |-> Str(<<"a">>), maxArticles |-> Undefined],
    [query |-> Str(<<>>), maxArticles |-> Undefined] }

\* ------------------------------------------------------------------- jobs
NoId == 0

\* lines 224-233: new MemoryJob(id, data); a BullMQ job starts the same way
NewJob(data) ==
  [data |-> data, state |-> "waiting", attemptsMade |-> 0,
   returnvalue |-> "undefined", failedReason |-> "undefined"]

\* mutant of FreshId: the generator repeats an id
FreshIdRepeats(used) == 1

\* line 256: randomUUID() (the durable queue draws ids from a Redis counter)
FreshId(used) == used + 1

\* mutant of ScheduleImmediate: the callback is queued ahead of the others
ScheduleImmediateInFront(q, id) == <<id>> \o q

\* mutants of ScheduleImmediate: the callback is queued twice, or not at all
ScheduleImmediateTwice(q, id) == Append(Append(q, id), id)
ScheduleImmediateNever(q, id) == q

\* mutant of ScheduleImmediate: the callback of the first job is queued again
ScheduleImmediateFirstAgain(q, id) == Append(Append(q, id), 1)

\* lines 259-261: setImmediate(() => run(job))
ScheduleImmediate(q, id) == Append(q, id)

Ids == DOMAIN jobs

\* lines 334-338: the listener of 'finish' counts the response under the
\* method, under req.route.path when a route took the request and req.path
\* when none did, and under String(res.statusCode); route names the method
\* and the path pattern of the request
Labels(route, handled, status) ==
  [route |-> route, path |-> IF handled THEN "req.route.path" ELSE "req.path",
   status_code |-> ToString(status)]

\* a response of POST /tasks, with the increments of httpRequestsTotal made
\* when it finished
Response(status, id) ==
  [status |-> status, id |-> id,
   counted |-> <<Labels("POST /tasks", TRUE, status)>>]

\* Map.prototype.set / HSET of a job record
MapSet(m, k, v) == [x \in DOMAIN m \cup {k} |-> IF x = k THEN v ELSE m[x]]

\* a counter kept per job id, started at 0 when the id is first seen
Track(m, k) == IF k \in DOMAIN m THEN m ELSE MapSet(m, k, 0)

\* ------------------------------------------------- configuration (11-41)
\* line 38; the model writes the secret 'change_me_worker' as one character
defaultServiceToken == Str(<<"w">>)

\* lines 11-24; fileContent is what readFileSync returns for the path given
\* in the environment, undefined when no path is given
resolveSecret(envValue, fileContent) ==
  IF Truthy(envValue) /\ Truthy(Str(Trim(envValue.s))) THEN Str(Trim(envValue.s))
  ELSE IF fileContent.t = "string" THEN Str(Trim(fileContent.s))
  ELSE Undefined

\* x ?? y
Nullish(x, y) == IF x.t \in {"undefined", "null"} THEN y ELSE x

\* SERVICE_TOKEN and the content of SERVICE_TOKEN_FILE
TokenEnvInputs == { Undefined, Str(<<>>), Str(<<" ", "k">>) }
TokenFileInputs == { Undefined, Str(<<"k", "\n">>) }

\* no request on the other routes answered yet; id is the :id of an artifact
\* request, read the path the route handed to the file system, and counted
\* the increments of httpRequestsTotal made when the response finished
NoExchange ==
  [route |-> "none", credential |-> "none", status |-> 0, handled |-> FALSE,
   body |-> "none", result |-> "absent", id |-> <<>>, read |-> <<>>,
   counted |-> <<>>]

\* the artifact root does not exist before the first capture creates it
NoFiles == <<>>

\* the queue, empty, under every configuration of the backend
QueueInit ==
  /\ useMemoryQueue \in BOOLEAN
  /\ maxAttempts \in 0..MaxAttemptsCfg
  /\ concurrency \in 1..MaxConcurrencyCfg
  /\ jobs = <<>>
  /\ uuid = 0
  /\ immediates = <<>>
  /\ waitList = <<>>
  /\ running = <<>>
  /\ thrown = <<>>
  /\ inflight = {}
  /\ requests = 0
  /\ responses = <<>>
  /\ ready = useMemoryQueue
  /\ exchange = NoExchange
  /\ fetched = <<>>

\* the environment leaves SERVICE_TOKEN and SERVICE_TOKEN_FILE unset
AuthDefault ==
  /\ serviceToken = resolveSecret(Nullish(Undefined, defaultServiceToken), Undefined)
  /\ allowAuthorizationHeader = TRUE

\* an empty artifact store with the default retention window
StoreInit ==
  /\ fs = NoFiles
  /\ now = 0
  /\ capture = <<>>
  /\ sweeps = 0

StoreDefault == StoreInit /\ retentionHours = 24

\* lines 455-475: how far shutdown() has got, and the browser it holds
\* (line 463)
Running == [at |-> "running", browser |-> 0]
Closing(b) == [at |-> "closing", browser |-> b]
Stopping == [at |-> "stopping", browser |-> 0]
Abandoned == [at |-> "abandoned", browser |-> 0]
Exited == [at |-> "exited", browser |-> 0]

\* line 466: the server answers requests until server.close() is called
Listening == phase.at \in {"running", "closing", "abandoned"}

\* line 466: callbacks run until process.exit
Alive == phase.at # "exited"

\* line 109: no browser launched yet; no signal received
SessionInit ==
  /\ browserPromise = 0
  /\ browsers = <<>>
  /\ pages = {}
  /\ phase = Running

\* line 37: PUPPETEER_FAKE_MODE is not 1
RealMode == fakeMode = FALSE /\ SessionInit

Init == QueueInit /\ AuthDefault /\ StoreDefault /\ RealMode

\* --------------------------------------------------- POST /tasks (377-392)
\* lines 379-381: the query is rejected, 400, nothing is enqueued
SubmitRejected(body) ==
  /\ requests < MaxRequests
  /\ QueryRejected(body.query)
  /\ requests' = requests + 1
  /\ responses' = Append(responses, Response(400, NoId))
  /\ UNCHANGED <<others, config, jobs, uuid, immediates, waitList, running, thrown, inflight>>

\* lines 255-263 and 391: the memory driver's queue.add resolves in the same
\* turn of the event loop, and the handler answers 202 before any callback
\* queued by setImmediate runs.
SubmitMemory(body) ==
  /\ useMemoryQueue
  /\ requests < MaxRequests
  /\ ~QueryRejected(body.query)
  /\ LET id == FreshId(uuid) IN
       /\ uuid' = uuid + 1
       /\ jobs' = MapSet(jobs, id, NewJob(JobData(body)))
       /\ immediates' = ScheduleImmediate(immediates, id)
       /\ running' = Track(running, id)
       /\ thrown' = Track(thrown, id)
       /\ responses' = Append(responses, Response(202, id))
  /\ requests' = requests + 1
  /\ UNCHANGED <<others, config, waitList, inflight>>

\* lines 382-390 with the BullMQ queue: queue.add stores the job in Redis and
\* pushes it on the wait list; the handler is suspended on the await until
\* the reply arrives.
SubmitDurable(body) ==
  /\ ~useMemoryQueue
  /\ requests < MaxRequests
  /\ ~QueryRejected(body.query)
  /\ LET id == FreshId(uuid) IN
       /\ uuid' = uuid + 1
       /\ jobs' = MapSet(jobs, id, NewJob(JobData(body)))
       /\ waitList' = Append(waitList, id)
       /\ running' = Track(running, id)
       /\ thrown' = Track(thrown, id)
       /\ inflight' = inflight \cup {id}
  /\ requests' = requests + 1
  /\ UNCHANGED <<others, config, immediates, responses>>

\* line 391 with the BullMQ queue: the await of queue.add resumes.  The
\* commands of queue.add travel over one connection and their replies come
\* back in the order sent, so the handlers resume in the order of their adds.
RespondDurable(id) ==
  /\ id \in inflight
  /\ \A other \in inflight : id <= other
  /\ inflight' = inflight \ {id}
  /\ responses' = Append(responses, Response(202, id))
  /\ UNCHANGED <<others, config, jobs, uuid, immediates, waitList, running, thrown, requests>>

\* ------------------------------------------- createMemoryDriver.run (240-251)
\* mutant of RunBegin: the attempt is counted twice
RunBeginCountsTwice(job) == [job EXCEPT !.state = "active", !.attemptsMade = @ + 2]

\* lines 241-242
RunBegin(job) == [job EXCEPT !.state = "active", !.attemptsMade = @ + 1]

\* lines 244-245
RunResolved(job) == [job EXCEPT !.returnvalue = "summary", !.state = "completed"]

\* mutant of RunRejected: the job is put back in the queue on an error
RunRejectedRequeues(job) == [job EXCEPT !.failedReason = "message", !.state = "waiting"]

\* lines 246-249
RunRejected(job) == [job EXCEPT !.failedReason = "message", !.state = "failed"]

\* the callback of line 259 runs: run(job) up to the await of line 244
RunStart ==
  /\ useMemoryQueue
  /\ immediates # <<>>
  /\ LET id == Head(immediates) IN
       /\ jobs' = [jobs EXCEPT ![id] = RunBegin(@)]
       /\ running' = [running EXCEPT ![id] = @ + 1]
  /\ immediates' = Tail(immediates)
  /\ UNCHANGED <<others, config, uuid, waitList, thrown, inflight, requests, responses>>

\* the processor's promise resolves
RunComplete(id) ==
  /\ useMemoryQueue
  /\ id \in Ids
  /\ running[id] > 0
  /\ jobs' = [jobs EXCEPT ![id] = RunResolved(@)]
  /\ running' = [running EXCEPT ![id] = @ - 1]
  /\ UNCHANGED <<others, config, uuid, immediates, waitList, thrown, inflight, requests, responses>>

\* the processor's promise rejects with an Error
RunCatch(id) ==
  /\ useMemoryQueue
  /\ id \in Ids
  /\ running[id] > 0
  /\ jobs' = [jobs EXCEPT ![id] = RunRejected(@)]
  /\ running' = [running EXCEPT ![id] = @ - 1]
  /\ thrown' = [thrown EXCEPT ![id] = @ + 1]
  /\ UNCHANGED <<others, config, uuid, immediates, waitList, inflight, requests, responses>>

\* What a processor's promise can reject with: an Error, another object, a
\* string, or no value at all.
ErrorValue == Object(<<"message", "stack">>)
ThrownValues == { ErrorValue, Object(<<>>), Str(<<"x">>), Undefined, Null }

\* line 247: err.message, read as the handler of line 404 later shows it
MessageOf(err) ==
  IF err.t = "object" /\ \E i \in DOMAIN err.s : err.s[i] = "message"
  THEN "message" ELSE "undefined"

\* lines 246-250 for any thrown value: reading err.message of undefined or
\* null throws inside the catch block, before line 249 sets the state; run's
\* promise rejects and the catch of line 260 drops that error
RunCatchOf(id, err) ==
  /\ useMemoryQueue
  /\ id \in Ids
  /\ running[id] > 0
  /\ jobs' = [jobs EXCEPT ![id] =
                IF err.t \in {"undefined", "null"} THEN @
                ELSE [@ EXCEPT !.failedReason = MessageOf(err), !.state = "failed"]]
  /\ running' = [running EXCEPT ![id] = @ - 1]
  /\ thrown' = [thrown EXCEPT ![id] = @ + 1]
  /\ UNCHANGED <<others, config, uuid, immediates, waitList, inflight, requests, responses>>

\* the memory driver around a processor that resolves, or rejects with any
\* value
ThrowInit == Init /\ useMemoryQueue /\ maxAttempts = 1 /\ concurrency = 1

ThrowNext ==
  \/ \E body \in Bodies : SubmitRejected(body)
  \/ \E body \in Bodies : SubmitMemory(body)
  \/ RunStart
  \/ \E id \in 1..MaxRequests : RunComplete(id)
  \/ \E id \in 1..MaxRequests, err \in ThrownValues : RunCatchOf(id, err)

ThrowSpec == ThrowInit /\ [][ThrowNext]_vars

\* ------------------------------------------ BullMQ queue and worker (295-306)
\* worker slots in use: jobs whose processor is running
BusySlots == Cardinality({id \in Ids : running[id] > 0})

\* line 305: the worker takes a job only while a slot is free
SlotFree == BusySlots < concurrency

\* line 298: another attempt is allowed
AttemptsLeft(job) == job.attemptsMade < maxAttempts

\* the worker moves the oldest waiting job to active and counts the attempt
MoveToActive(job) == [job EXCEPT !.state = "active", !.attemptsMade = @ + 1]

MoveToCompleted(job) == [job EXCEPT !.returnvalue = "summary", !.state = "completed"]

\* lines 298-299: retried with backoff while attempts are left, failed otherwise;
\* the reason of the error is stored either way
MoveToFailed(job) ==
  [job EXCEPT !.failedReason = "message",
              !.state = IF AttemptsLeft(job) THEN "delayed" ELSE "failed"]

WorkerDispatch ==
  /\ ~useMemoryQueue
  /\ waitList # <<>>
  /\ SlotFree
  /\ LET id == Head(waitList) IN
       /\ jobs' = [jobs EXCEPT ![id] = MoveToActive(@)]
       /\ running' = [running EXCEPT ![id] = @ + 1]
  /\ waitList' = Tail(waitList)
  /\ UNCHANGED <<others, config, uuid, immediates, thrown, inflight, requests, responses>>

WorkerComplete(id) ==
  /\ ~useMemoryQueue
  /\ id \in Ids
  /\ running[id] > 0
  /\ jobs' = [jobs EXCEPT ![id] = MoveToCompleted(@)]
  /\ running' = [running EXCEPT ![id] = @ - 1]
  /\ UNCHANGED <<others, config, uuid, immediates, waitList, thrown, inflight, requests, responses>>

WorkerFail(id) ==
  /\ ~useMemoryQueue
  /\ id \in Ids
  /\ running[id] > 0
  /\ jobs' = [jobs EXCEPT ![id] = MoveToFailed(@)]
  /\ running' = [running EXCEPT ![id] = @ - 1]
  /\ thrown' = [thrown EXCEPT ![id] = @ + 1]
  /\ UNCHANGED <<others, config, uuid, immediates, waitList, inflight, requests, responses>>

\* line 302: the scheduler promotes a delayed job once its backoff has elapsed
PromoteDelayed(id) ==
  /\ ~useMemoryQueue
  /\ id \in Ids
  /\ jobs[id].state = "delayed"
  /\ jobs' = [jobs EXCEPT ![id].state = "waiting"]
  /\ waitList' = Append(waitList, id)
  /\ UNCHANGED <<others, config, uuid, immediates, running, thrown, inflight, requests, responses>>

\* ------------------------------------------------------------------- Next
JobIds == 1..MaxRequests

\* the steps of the two queue backends
QueueStep ==
  \/ \E id \in JobIds : RespondDurable(id)
  \/ RunStart
  \/ \E id \in JobIds : RunComplete(id)
  \/ \E id \in JobIds : RunCatch(id)
  \/ WorkerDispatch
  \/ \E id \in JobIds : WorkerComplete(id)
  \/ \E id \in JobIds : WorkerFail(id)
  \/ \E id \in JobIds : PromoteDelayed(id)

\* a POST /tasks request with a body drawn from B
SubmitStep(B) ==
  \/ \E body \in B : SubmitRejected(body)
  \/ \E body \in B : SubmitMemory(body)
  \/ \E body \in B : SubmitDurable(body)

\* The queue under every configuration; the payload does not steer the queue,
\* so the requests carry one accepted and one rejected body.
Next == SubmitStep(QueueBodies) \/ QueueStep

Spec == Init /\ [][Next]_vars

\* POST /tasks under every request body of Bodies, with one retry per job and
\* one worker slot.
SubmitInit == Init /\ maxAttempts = 2 /\ concurrency = 1

SubmitNext == SubmitStep(Bodies) \/ QueueStep

SubmitSpec == SubmitInit /\ [][SubmitNext]_vars

\* The queue with the scheduling the runtime guarantees: the event loop runs
\* every callback queued by setImmediate, the worker keeps polling, the
\* scheduler promotes due jobs, a pending reply is delivered, and every
\* processor call returns or throws.  QueueStep stays enabled until one fires.
LiveSpec == Spec /\ WF_vars(QueueStep)

\* ------------------------------------------- access control (342-362)
\* String.prototype.toLowerCase on the letters the model's headers use
LowerChar(c) ==
  CASE c = "B" -> "b" [] c = "E" -> "e" [] c = "A" -> "a" [] c = "R" -> "r"
    [] OTHER -> c

ToLowerCase(s) == [i \in 1..Len(s) |-> LowerChar(s[i])]

StartsWith(s, prefix) ==
  Len(s) >= Len(prefix) /\ SubSeq(s, 1, Len(prefix)) = prefix

\* String.prototype.slice(n)
Slice(s, n) == IF n >= Len(s) THEN <<>> ELSE SubSeq(s, n + 1, Len(s))

bearer == <<"b", "e", "a", "r", "e", "r", " ">>

\* line 352
BearerValue(value) ==
  IF StartsWith(ToLowerCase(value), bearer) THEN Trim(Slice(value, 7)) ELSE value

\* line 347: the candidate taken from the service token header
HeaderCandidate(h) == IF Truthy(h.token) THEN Trim(h.token.s) ELSE <<>>

\* lines 348-354: the Authorization header is read when the first gave nothing
UsesAuthorization(h) ==
  HeaderCandidate(h) = <<>> /\ allowAuthorizationHeader /\ Truthy(h.authorization)

\* mutant of Candidate: the Authorization header is read whatever the setting
CandidateIgnoresSetting(h) ==
  IF HeaderCandidate(h) = <<>> /\ Truthy(h.authorization)
  THEN BearerValue(Trim(h.authorization.s))
  ELSE HeaderCandidate(h)

\* lines 346-354
Candidate(h) ==
  IF UsesAuthorization(h)
  THEN BearerValue(Trim(h.authorization.s))
  ELSE HeaderCandidate(h)

\* the request goes on to its route: next()
Admitted == 0

\* lines 342-362: the status the middleware answers, or Admitted
Gate(h) ==
  IF ~Truthy(serviceToken) THEN Admitted
  ELSE IF Candidate(h) = <<>> THEN 401
  ELSE IF Candidate(h) # serviceToken.s THEN 403
  ELSE Admitted

\* which header gave the candidate
Credential(h) ==
  IF Candidate(h) = <<>> THEN "none"
  ELSE IF UsesAuthorization(h) THEN "authorization" ELSE "header"

\* the routes of the service, in the order they are registered (364-447)
Routes ==
  { "GET /healthz", "POST /tasks", "GET /tasks/:id",
    "GET /tasks/:id/artifacts/:type", "GET /metrics" }

\* the credentials a request carries: the secrets of the model are w and k
TokenHeaders ==
  { Undefined, Str(<<" ">>), Str(<<"w">>), Str(<<" ", "k", " ">>), Str(<<"x">>) }

AuthorizationHeaders ==
  { Undefined,
    Str(<<"B", "e", "a", "r", "e", "r", " ", "w">>),
    Str(<<"B", "E", "A", "R", "E", "R", " ", " ", "k", " ">>),
    Str(<<"w">>),
    Str(<<"B", "e", "a", "r", "e", "r", " ", "x">>) }

Headers == [token : TokenHeaders, authorization : AuthorizationHeaders]

Answer(route, h, status, handled, body, result) ==
  [route |-> route, credential |-> Credential(h), status |-> status,
   handled |-> handled, body |-> body, result |-> result, id |-> <<>>,
   read |-> <<>>, counted |-> <<Labels(route, handled, status)>>]

\* lines 355-360: the middleware answers and the route handler is not called
GateRejects(route, h) ==
  /\ Gate(h) # Admitted
  /\ exchange' = Answer(route, h, Gate(h), FALSE,
                        IF Gate(h) = 401 THEN "missing service token"
                        ELSE "invalid service token", "absent")
  /\ UNCHANGED <<config, jobs, uuid, immediates, waitList, running, thrown,
                 inflight, requests, responses, serviceToken,
                 allowAuthorizationHeader, ready, fetched, store, session>>

\* POST /tasks behind the middleware
GatedSubmit(h, body) ==
  /\ Gate(h) = Admitted
  /\ \/ SubmitRejected(body)
     \/ SubmitMemory(body)
     \/ SubmitDurable(body)

\* ------------------------------------------------- readiness (309-327)
\* line 319: the scheduler and the worker have connected
BecomeReady ==
  /\ ~ready
  /\ ready' = TRUE
  /\ UNCHANGED <<config, jobs, uuid, immediates, waitList, running, thrown,
                 inflight, requests, responses, serviceToken,
                 allowAuthorizationHeader, exchange, fetched, store, session>>

\* mutant of HealthStatus: the readiness flag is not consulted
HealthStatusIgnoresReady(pingOk) == IF pingOk THEN 200 ELSE 503

\* lines 365-374
HealthStatus(pingOk) == IF ~ready THEN 503 ELSE IF pingOk THEN 200 ELSE 503

HealthBody(pingOk) ==
  IF ~ready THEN "initialising" ELSE IF pingOk THEN "ok" ELSE "error"

\* GET /healthz behind the middleware; the memory driver's ping always
\* answers (line 253), the Redis ping answers or throws
Healthz(h, pingOk) ==
  /\ Gate(h) = Admitted
  /\ useMemoryQueue => pingOk
  /\ exchange' = Answer("GET /healthz", h, HealthStatus(pingOk), TRUE,
                        HealthBody(pingOk), "absent")
  /\ UNCHANGED <<config, jobs, uuid, immediates, waitList, running, thrown,
                 inflight, requests, responses, serviceToken,
                 allowAuthorizationHeader, ready, fetched, store, session>>

\* ------------------------------------------------ GET /tasks/:id (394-413)
\* the ids a request may name: the ids of the run, and one never handed out
RequestIds == 1..(MaxRequests + 1)

\* res.json: JSON.stringify leaves out a field whose value is undefined
JsonField(v) == IF v = "undefined" THEN "absent" ELSE v

\* mutant of ResultOf: the return value is attached in every state
ResultOfAnyState(job, state) == JsonField(job.returnvalue)

\* lines 409-411
ResultOf(job, state) ==
  IF state = "completed" THEN JsonField(job.returnvalue) ELSE "absent"

\* lines 264-266: jobs.get(id) || null; the job found, or nothing
getJob(id) == IF id \in Ids THEN <<jobs[id]>> ELSE <<>>

\* Job.fromJSON: the job read from its Redis hash holds null as return value
\* until the hash has one; of the fields read, the model keeps the one the
\* answer's result is taken from
FromRedis(job) ==
  [returnvalue |-> IF job.returnvalue = "undefined" THEN "null" ELSE job.returnvalue]

TaskNotFound(h) ==
  Answer("GET /tasks/:id", h, 404, TRUE, "job not found", "absent")

TaskFound(credential, job, state) ==
  [route |-> "GET /tasks/:id", credential |-> credential, status |-> 200,
   handled |-> TRUE, body |-> state, result |-> ResultOf(job, state),
   id |-> <<>>, read |-> <<>>,
   counted |-> <<Labels("GET /tasks/:id", TRUE, 200)>>]

\* lines 395-398: no job under the id
GetTaskMissing(h, id) ==
  /\ Gate(h) = Admitted
  /\ getJob(id) = <<>>
  /\ exchange' = TaskNotFound(h)
  /\ UNCHANGED <<config, jobs, uuid, immediates, waitList, running, thrown,
                 inflight, requests, responses, serviceToken,
                 allowAuthorizationHeader, ready, fetched, store, session>>

\* the memory driver: getJob hands out the job object itself and getState
\* reads its state, so the answer is built from one state of the job
GetTaskMemory(h, id) ==
  /\ Gate(h) = Admitted
  /\ useMemoryQueue
  /\ getJob(id) # <<>>
  /\ exchange' = TaskFound(Credential(h), getJob(id)[1], getJob(id)[1].state)
  /\ UNCHANGED <<config, jobs, uuid, immediates, waitList, running, thrown,
                 inflight, requests, responses, serviceToken,
                 allowAuthorizationHeader, ready, fetched, store, session>>

\* BullMQ, line 395: getJob reads the job's hash; the handler is suspended
\* on the await of getState
GetTaskFetch(h, id) ==
  /\ Gate(h) = Admitted
  /\ ~useMemoryQueue
  /\ getJob(id) # <<>>
  /\ fetched = <<>>
  /\ fetched' = <<[id |-> id, credential |-> Credential(h),
                   job |-> FromRedis(getJob(id)[1])]>>
  /\ UNCHANGED <<config, jobs, uuid, immediates, waitList, running, thrown,
                 inflight, requests, responses, serviceToken,
                 allowAuthorizationHeader, ready, exchange, store, session>>

\* BullMQ, lines 399-412: getState reads the state the job has by now, the
\* other fields are those read by getJob
GetTaskState ==
  /\ fetched # <<>>
  /\ LET f == Head(fetched) IN
       exchange' = TaskFound(f.credential, f.job, jobs[f.id].state)
  /\ fetched' = Tail(fetched)
  /\ UNCHANGED <<config, jobs, uuid, immediates, waitList, running, thrown,
                 inflight, requests, responses, serviceToken,
                 allowAuthorizationHeader, ready, store, session>>

\* ------------------------------------------------- the service behind its gate
\* SERVICE_TOKEN, SERVICE_TOKEN_FILE and SERVICE_TOKEN_ALLOW_AUTHORIZATION
\* take every value of the model
AuthConfig ==
  /\ \E envValue \in TokenEnvInputs, fileContent \in TokenFileInputs :
       serviceToken = resolveSecret(Nullish(envValue, defaultServiceToken), fileContent)
  /\ allowAuthorizationHeader \in BOOLEAN

AuthInit ==
  /\ QueueInit /\ maxAttempts = 2 /\ concurrency = 1
  /\ AuthConfig
  /\ StoreDefault
  /\ RealMode

\* requests with every pair of headers on every route, under every
\* configuration of the secret; the jobs submitted stay in the queue
AuthNext ==
  \/ \E route \in Routes, h \in Headers : GateRejects(route, h)
  \/ \E h \in Headers, body \in QueueBodies : GatedSubmit(h, body)
  \/ \E id \in JobIds : RespondDurable(id)
  \/ BecomeReady
  \/ \E h \in Headers, pingOk \in BOOLEAN : Healthz(h, pingOk)

AuthSpec == AuthInit /\ [][AuthNext]_vars

\* the requests of HttpSpec carry the default secret
HttpHeaders == { [token |-> Str(<<"w">>), authorization |-> Undefined] }

\* the one body they submit
HttpBodies == { [query |-> Str(<<"a">>), maxArticles |-> Undefined] }

HttpInit ==
  /\ QueueInit /\ maxAttempts = 2 /\ concurrency = 1
  /\ AuthDefault
  /\ StoreDefault
  /\ RealMode

\* POST /tasks with an accepted body, behind the middleware
GatedEnqueue(h, body) ==
  /\ Gate(h) = Admitted
  /\ SubmitMemory(body) \/ SubmitDurable(body)

\* GET /tasks/:id while the jobs move through the queue
HttpStep ==
  \/ \E h \in HttpHeaders, body \in HttpBodies : GatedEnqueue(h, body)
  \/ \E h \in HttpHeaders, id \in RequestIds : GetTaskMissing(h, id)
  \/ \E h \in HttpHeaders, id \in RequestIds : GetTaskMemory(h, id)
  \/ \E h \in HttpHeaders, id \in RequestIds : GetTaskFetch(h, id)
  \/ GetTaskState

HttpNext == HttpStep \/ QueueStep

HttpSpec == HttpInit /\ [][HttpNext]_vars

\* ------------------------------------- metrics (45-61, 330-340, 443-447)
\* lines 330, 332, 342: the middlewares in the order app.use registers them
Middlewares == <<"express.json", "metrics", "auth">>

Position(name) == CHOOSE i \in DOMAIN Middlewares : Middlewares[i] = name

\* A middleware that fails calls next(err): Express then skips every
\* middleware and route registered after it and answers from its error
\* handler.  The middleware runs when none before it has failed.
Reached(name, failed) ==
  \A i \in DOMAIN Middlewares : Middlewares[i] \in failed => Position(name) <= i

\* line 330: express.json cannot parse the body of the request (malformed
\* JSON, or more than 32kb): Express answers 400 (or 413) itself; the
\* listener of line 334 exists only when the metrics middleware has run
BodyRejected(route) ==
  /\ exchange' =
       [route |-> route, credential |-> "none", status |-> 400,
        handled |-> FALSE, body |-> "entity.parse.failed", result |-> "absent",
        id |-> <<>>, read |-> <<>>,
        counted |-> IF Reached("metrics", {"express.json"})
                    THEN <<Labels(route, FALSE, 400)>> ELSE <<>>]
  /\ UNCHANGED <<config, jobs, uuid, immediates, waitList, running, thrown,
                 inflight, requests, responses, serviceToken,
                 allowAuthorizationHeader, ready, fetched, store, session>>

\* lines 45-61: what the registry holds: the default metrics of the process,
\* the request counter and the duration histogram
metricsRegistry ==
  { [name |-> "adverse_media_ (collectDefaultMetrics)", type |-> "default",
     measures |-> "process"],
    [name |-> "adverse_media_http_requests_total", type |-> "counter",
     measures |-> "requests"],
    [name |-> "adverse_media_http_request_duration_seconds", type |-> "histogram",
     measures |-> "requests"] }

\* lines 443-447: GET /metrics behind the middleware; the payload is the
\* text of every metric of the registry
GetMetrics(h) ==
  /\ Gate(h) = Admitted
  /\ exchange' = Answer("GET /metrics", h, 200, TRUE, "metricsRegistry.metrics()",
                        "absent")
  /\ UNCHANGED <<config, jobs, uuid, immediates, waitList, running, thrown,
                 inflight, requests, responses, serviceToken,
                 allowAuthorizationHeader, ready, fetched, store, session>>

\* the credentials of the requests of MetricsSpec: none, the default secret
\* and a wrong one
MetricsHeaders ==
  { [token |-> Undefined, authorization |-> Undefined],
    [token |-> Str(<<"w">>), authorization |-> Undefined],
    [token |-> Str(<<"x">>), authorization |-> Undefined] }

MetricsInit ==
  /\ QueueInit /\ maxAttempts = 2 /\ concurrency = 1
  /\ AuthDefault
  /\ StoreDefault
  /\ RealMode

\* requests on every route, with and without the secret, and requests whose
\* body cannot be parsed
MetricsNext ==
  \/ \E route \in Routes : BodyRejected(route)
  \/ \E route \in Routes, h \in MetricsHeaders : GateRejects(route, h)
  \/ \E h \in MetricsHeaders, body \in QueueBodies : GatedSubmit(h, body)
  \/ \E id \in JobIds : RespondDurable(id)
  \/ BecomeReady
  \/ \E h \in MetricsHeaders, pingOk \in BOOLEAN : Healthz(h, pingOk)
  \/ \E h \in MetricsHeaders, id \in RequestIds : GetTaskMissing(h, id)
  \/ \E h \in MetricsHeaders : GetMetrics(h)

MetricsSpec == MetricsInit /\ [][MetricsNext]_vars

\* ------------------------------------------------------ the artifact store
\* A path below the artifact root is the sequence of its names; the root is
\* the empty path.  An entry is a directory or a regular file with its mtime;
\* a summary file also holds the artifact paths written into it.
Root == <<>>

Dir(t) == [kind |-> "dir", mtime |-> t, artifacts |-> {}]
File(t, artifacts) == [kind |-> "file", mtime |-> t, artifacts |-> artifacts]

Exists(f, p) == p \in DOMAIN f

Parent(p) == SubSeq(p, 1, Len(p) - 1)

Prefixes(p) == { SubSeq(p, 1, k) : k \in 0..Len(p) }

\* path.join(dir, name)
Join(dir, name) == Append(dir, name)

\* the entries below p, p included
Below(f, p) ==
  { q \in DOMAIN f : Len(q) >= Len(p) /\ SubSeq(q, 1, Len(p)) = p }

\* fs.readdirSync(dir), as paths
ReadDir(f, dir) == { q \in DOMAIN f : Len(q) = Len(dir) + 1 /\ Parent(q) = dir }

\* fs.mkdirSync(p, { recursive: true }) at time t: the missing directories
\* are created, and a directory that gains an entry gets the mtime t
MkdirP(f, p, t) ==
  LET missing == { q \in Prefixes(p) : ~Exists(f, q) } IN
    [x \in DOMAIN f \cup Prefixes(p) |->
       IF x \in missing THEN Dir(t)
       ELSE IF \E q \in missing : q # Root /\ Parent(q) = x
            THEN [f[x] EXCEPT !.mtime = t]
            ELSE f[x]]

\* fs.writeFileSync(p, ...) at time t in an existing directory: the file is
\* created or overwritten; creating it changes the directory's mtime
WriteFile(f, p, t, artifacts) ==
  [x \in DOMAIN f \cup {p} |->
     IF x = p THEN File(t, artifacts)
     ELSE IF x = Parent(p) /\ ~Exists(f, p) THEN [f[x] EXCEPT !.mtime = t]
     ELSE f[x]]

\* fs.rmSync(p, { recursive: true, force: true }) at time t
Rm(f, p, t) ==
  IF ~Exists(f, p) THEN f
  ELSE [x \in DOMAIN f \ Below(f, p) |->
          IF x = Parent(p) THEN [f[x] EXCEPT !.mtime = t] ELSE f[x]]

\* --------------------------------------------------- cleanup.js (1-31)
\* line 6
Cutoff(t, hours) == t - hours

RECURSIVE prune(_, _, _, _)
RECURSIVE pruneEntries(_, _, _, _)

\* mutant of pruneEntry: a directory emptied by the sweep is left in place
pruneEntryKeepsEmpty(f, entryPath, cutoff, t) ==
  IF f[entryPath].kind = "dir"
  THEN IF f[entryPath].mtime < cutoff
       THEN Rm(f, entryPath, t)
       ELSE prune(f, entryPath, cutoff, t)
  ELSE IF f[entryPath].mtime < cutoff THEN Rm(f, entryPath, t) ELSE f

\* lines 13-27: one entry of the directory listing
pruneEntry(f, entryPath, cutoff, t) ==
  IF f[entryPath].kind = "dir"
  THEN IF f[entryPath].mtime < cutoff
       THEN Rm(f, entryPath, t)
       ELSE LET g == prune(f, entryPath, cutoff, t) IN
              IF ReadDir(g, entryPath) = {} THEN Rm(g, entryPath, t) ELSE g
  ELSE IF f[entryPath].mtime < cutoff THEN Rm(f, entryPath, t) ELSE f

\* line 12: the loop over the listing; the entries are siblings, so the
\* order in which they are taken does not change the result
pruneEntries(f, entries, cutoff, t) ==
  IF entries = {} THEN f
  ELSE LET entryPath == CHOOSE x \in entries : TRUE IN
         pruneEntries(pruneEntry(f, entryPath, cutoff, t),
                      entries \ {entryPath}, cutoff, t)

\* lines 8-29
prune(f, dir, cutoff, t) ==
  IF ~Exists(f, dir) THEN f
  ELSE pruneEntries(f, ReadDir(f, dir), cutoff, t)

\* line 31: one run of the script, at the time now
Sweep ==
  /\ sweeps < MaxSweeps
  /\ sweeps' = sweeps + 1
  /\ fs' = prune(fs, Root, Cutoff(now, retentionHours), now)
  /\ UNCHANGED <<config, jobs, uuid, immediates, waitList, running, thrown,
                 inflight, requests, responses, http, session, now, retentionHours, capture>>

\* ---------------------------------------- the sweep on every small store
\* The names of the stores SweepSpec starts from: a job directory with its
\* page, a directory inside it with a file, and a file next to the job
\* directories (the user agent file of line 36 is one).
TreeKinds ==
  ( <<"j">> :> "dir" ) @@ ( <<"j", "page.html">> :> "file" ) @@
  ( <<"j", "d">> :> "dir" ) @@ ( <<"j", "d", "f">> :> "file" ) @@
  ( <<"user-agent.txt">> :> "file" )

Absent == 0 - 1

\* an assignment of mtimes (or Absent) to the names is a store when every
\* entry present has its parent present
IsTree(m) ==
  \A q \in DOMAIN m : (m[q] # Absent /\ Len(q) > 1) => m[Parent(q)] # Absent

TreeOf(m) ==
  [x \in {Root} \cup { q \in DOMAIN m : m[q] # Absent } |->
     IF x = Root THEN Dir(0)
     ELSE IF TreeKinds[x] = "dir" THEN Dir(m[x]) ELSE File(m[x], {})]

Trees ==
  { TreeOf(m) : m \in { n \in [DOMAIN TreeKinds -> {Absent} \cup 0..MaxClock] : IsTree(n) } }

SweepInit ==
  /\ QueueInit /\ useMemoryQueue /\ maxAttempts = 1 /\ concurrency = 1
  /\ AuthDefault
  /\ fs \in Trees \cup {NoFiles}
  /\ now = MaxClock
  /\ retentionHours \in 0..MaxRetention
  /\ capture = <<>>
  /\ sweeps = 0
  /\ RealMode

SweepSpec == SweepInit /\ [][Sweep]_vars

\* ------------------------------------------------- getBrowser (109-129)
\* A browser is launching until the promise of puppeteer.launch settles; it
\* is then connected, or the launch has failed; a connected browser becomes
\* disconnected when it crashes or is closed.
Launching == [state |-> "launching"]

IsConnected(b) == b \in DOMAIN browsers /\ browsers[b].state = "connected"

\* mutant of Launch: the promise of the launch is not kept
LaunchForgets(kept, b) == kept

\* lines 117-127: browserPromise = puppeteer.launch(...).then(...)
Launch(kept, b) == b

\* lines 123-125: the listener of 'disconnected'
OnDisconnected(kept) == 0

\* the promise of a launch resolves: the listener is registered (line 123)
\* and every call suspended on the promise (lines 112, 165) goes on in the
\* same turn, finding the browser connected (line 113)
LaunchResolves(b) ==
  /\ b \in DOMAIN browsers
  /\ browsers[b].state = "launching"
  /\ browsers' = [browsers EXCEPT ![b].state = "connected"]
  /\ capture' = [id \in DOMAIN capture |->
                   IF capture[id].step = "waiting" /\ capture[id].browser = b
                   THEN [capture[id] EXCEPT !.step = "browser"]
                   ELSE capture[id]]
  /\ UNCHANGED <<config, jobs, uuid, immediates, waitList, running, thrown,
                 inflight, requests, responses, http, fs, now, retentionHours,
                 sweeps, fakeMode, browserPromise, pages, phase>>

\* puppeteer.launch rejects: the rejected promise stays in browserPromise,
\* and every call suspended on it throws
LaunchRejects(b) ==
  /\ b \in DOMAIN browsers
  /\ browsers[b].state = "launching"
  /\ browsers' = [browsers EXCEPT ![b].state = "failed"]
  /\ capture' = [id \in DOMAIN capture |->
                   IF capture[id].step = "waiting" /\ capture[id].browser = b
                   THEN [capture[id] EXCEPT !.step = "threw"]
                   ELSE capture[id]]
  /\ UNCHANGED <<config, jobs, uuid, immediates, waitList, running, thrown,
                 inflight, requests, responses, http, fs, now, retentionHours,
                 sweeps, fakeMode, browserPromise, pages, phase>>

\* The browser process dies.  Puppeteer marks the connection closed and
\* emits 'disconnected' in one synchronous call, so isConnected() turns
\* false and the listener of lines 123-125 runs in the same step.
Crash(b) ==
  /\ IsConnected(b)
  /\ browsers' = [browsers EXCEPT ![b].state = "disconnected"]
  /\ browserPromise' = OnDisconnected(browserPromise)
  /\ UNCHANGED <<config, jobs, uuid, immediates, waitList, running, thrown,
                 inflight, requests, responses, http, store, fakeMode, pages, phase>>

\* ----------------------------------------------- captureSearch (131-211)
\* line 137: safeJobKey(job.id); the ids the queues hand out (a UUID, a Redis
\* counter) hold no character that safeJobKey replaces
JobKey(id) == ToString(id)

\* lines 138-142
jobDir(id) == Join(Root, JobKey(id))
htmlFile(id) == Join(jobDir(id), "page.html")
screenshotFile(id) == Join(jobDir(id), "screenshot.png")
summaryFile(id) == Join(jobDir(id), "summary.json")

\* lines 203-207: the paths relative to screenshotDir
SummaryArtifacts(id) == { htmlFile(id), screenshotFile(id), summaryFile(id) }

\* String.prototype.split(sep), for a separator of one character
RECURSIVE Split(_, _, _)
Split(str, sep, piece) ==
  IF str = <<>> THEN <<piece>>
  ELSE IF Head(str) = sep THEN <<piece>> \o Split(Tail(str), sep, <<>>)
  ELSE Split(Tail(str), sep, Append(piece, Head(str)))

\* String.prototype.replace(from, to): the first occurrence only
RECURSIVE ReplaceFirst(_, _, _)
ReplaceFirst(str, from, to) ==
  IF str = <<>> THEN <<>>
  ELSE IF Head(str) = from THEN <<to>> \o Tail(str)
  ELSE <<Head(str)>> \o ReplaceFirst(Tail(str), from, to)

\* encodeURIComponent on the characters of the model
EncodeChar(c) ==
  CASE c = " " -> <<"%", "2", "0">>
    [] c = ":" -> <<"%", "3", "A">>
    [] c = "\t" -> <<"%", "0", "9">>
    [] c = "\n" -> <<"%", "0", "A">>
    [] OTHER -> <<c>>

RECURSIVE encodeURIComponent(_)
encodeURIComponent(str) ==
  IF str = <<>> THEN <<>> ELSE EncodeChar(Head(str)) \o encodeURIComponent(Tail(str))

\* locale.split('-')[1] || 'US'
Region(locale) ==
  LET pieces == Split(locale, "-", <<>>) IN
    IF Len(pieces) >= 2 /\ pieces[2] # <<>> THEN pieces[2] ELSE <<"U", "S">>

\* line 143: the parameters of the search address
searchUrl(normalizedQuery, locale) ==
  [q |-> encodeURIComponent(normalizedQuery),
   hl |-> encodeURIComponent(locale),
   gl |-> encodeURIComponent(Region(locale)),
   ceid |-> encodeURIComponent(ReplaceFirst(locale, "-", ":"))]

\* line 143 calls locale.split: a TypeError unless the locale is a string
LocaleIsString(data) == data.locale.t = "string"

\* lines 147-153
fakeArticles(normalizedQuery) ==
  << [title |-> <<"Placeholder headline for ", normalizedQuery>>,
      url |-> "https://example.com/adverse-media-placeholder",
      source |-> "example.com"] >>

\* lines 174-181: what page.evaluate returned from the page: no article, or one
extracted ==
  [title |-> <<"extracted">>, url |-> "node.href", source |-> "extracted"]

ExtractedArticles == { <<>>, <<extracted>> }

\* lines 192-208
Summary(id, data, articles, t) ==
  [id |-> id,
   query |-> Trim(data.query.s),
   locale |-> data.locale,
   searchUrl |-> searchUrl(Trim(data.query.s), data.locale.s),
   fetchedAt |-> t,
   retentionExpiresAt |-> t + retentionHours,
   metadata |-> Or(data.metadata, Object(<<>>)),
   articles |-> articles,
   artifacts |-> SummaryArtifacts(id)]

\* where the processor call of the job's current attempt stands: "none"
\* before line 139, "dir" once the directory is made; in real mode "waiting"
\* for the launch, "browser", "page" (opened), "agent" (user agent set);
\* "html" and "png" once the files are written; in real mode "failing" when
\* the try block has thrown and "closed" once the page is closed; and
\* "summary" (returned) or "threw"
Progress(id) ==
  IF id \in DOMAIN capture /\ capture[id].attempt = jobs[id].attemptsMade
  THEN capture[id].step
  ELSE "none"

InCapture(id) == Alive /\ id \in Ids /\ running[id] > 0

Advance(id, step) == [capture EXCEPT ![id].step = step]

CaptureUnchanged ==
  UNCHANGED <<config, jobs, uuid, immediates, waitList, running, thrown,
              inflight, requests, responses, http, now, retentionHours, sweeps,
              fakeMode, phase>>

BrowserUnchanged == UNCHANGED <<browserPromise, browsers, pages>>

\* lines 132-144: the job directory is created and the search address built
CaptureBegin(id) ==
  /\ InCapture(id)
  /\ Progress(id) = "none"
  /\ fs' = MkdirP(fs, jobDir(id), now)
  /\ capture' = MapSet(capture, id,
                       [attempt |-> jobs[id].attemptsMade,
                        step |-> IF LocaleIsString(jobs[id].data) THEN "dir" ELSE "threw",
                        startedAt |-> now, browser |-> 0, articles |-> <<>>,
                        summary |-> <<>>])
  /\ CaptureUnchanged
  /\ BrowserUnchanged

\* line 165 and lines 110-129: getBrowser.  A browser whose promise is kept
\* is awaited and returned when connected; otherwise one is launched and
\* its promise kept and returned.
CaptureGetBrowser(id) ==
  /\ ~fakeMode
  /\ InCapture(id)
  /\ Progress(id) = "dir"
  /\ IF browserPromise # 0 /\ browsers[browserPromise].state \in {"connected", "launching", "failed"}
     THEN /\ capture' = [capture EXCEPT
                           ![id].browser = browserPromise,
                           ![id].step =
                             CASE browsers[browserPromise].state = "connected" -> "browser"
                               [] browsers[browserPromise].state = "launching" -> "waiting"
                               [] OTHER -> "threw"]
          /\ UNCHANGED <<browserPromise, browsers>>
     ELSE LET b == Len(browsers) + 1 IN
          /\ browsers' = Append(browsers, Launching)
          /\ browserPromise' = Launch(browserPromise, b)
          /\ capture' = [capture EXCEPT ![id].browser = b, ![id].step = "waiting"]
  /\ UNCHANGED <<fs, pages>>
  /\ CaptureUnchanged

\* a page, with the capture attempt that opened it
Page(id) == [job |-> id, attempt |-> capture[id].attempt, browser |-> capture[id].browser]

\* line 166: browser.newPage(), which rejects when the browser is gone
CaptureNewPage(id) ==
  /\ InCapture(id)
  /\ Progress(id) = "browser"
  /\ IF IsConnected(capture[id].browser)
     THEN /\ pages' = pages \cup {Page(id)}
          /\ capture' = Advance(id, "page")
     ELSE /\ pages' = pages
          /\ capture' = Advance(id, "threw")
  /\ UNCHANGED <<fs, browserPromise, browsers>>
  /\ CaptureUnchanged

\* lines 167-169: page.setUserAgent(userAgent), before the try block; it
\* rejects when the browser is gone, and when the browser refuses the value
\* read from the user agent file
CaptureUserAgent(id, accepted) ==
  /\ InCapture(id)
  /\ Progress(id) = "page"
  /\ capture' = Advance(id, IF accepted /\ IsConnected(capture[id].browser)
                            THEN "agent" ELSE "threw")
  /\ fs' = fs
  /\ BrowserUnchanged
  /\ CaptureUnchanged

\* the step of the call from which the html is written
HtmlDue == IF fakeMode THEN "dir" ELSE "agent"

\* where a step that throws leaves the call: inside the try block of lines
\* 170-189 in real mode
Thrown == IF fakeMode THEN "threw" ELSE "failing"

\* lines 154-158 in fake mode; lines 171-185 in real mode: the page is loaded,
\* the articles are extracted and the html is written.  writeFileSync throws
\* when the directory is not there, the page calls reject when the browser
\* is gone.
CaptureHtml(id, articles) ==
  /\ InCapture(id)
  /\ Progress(id) = HtmlDue
  /\ IF Exists(fs, jobDir(id)) /\ (fakeMode \/ IsConnected(capture[id].browser))
     THEN /\ fs' = WriteFile(fs, htmlFile(id), now, {})
          /\ capture' = [capture EXCEPT ![id].step = "html", ![id].articles = articles]
     ELSE /\ fs' = fs
          /\ capture' = Advance(id, Thrown)
  /\ BrowserUnchanged
  /\ CaptureUnchanged

\* lines 159-163 in fake mode; line 186 in real mode
CaptureScreenshot(id) ==
  /\ InCapture(id)
  /\ Progress(id) = "html"
  /\ IF Exists(fs, jobDir(id)) /\ (fakeMode \/ IsConnected(capture[id].browser))
     THEN /\ fs' = WriteFile(fs, screenshotFile(id), now, {})
          /\ capture' = Advance(id, "png")
     ELSE /\ fs' = fs
          /\ capture' = Advance(id, Thrown)
  /\ BrowserUnchanged
  /\ CaptureUnchanged

\* lines 171-186: the navigation, the extraction, the reading of the content
\* or the screenshot rejects
CaptureError(id) ==
  /\ ~fakeMode
  /\ InCapture(id)
  /\ Progress(id) \in {"agent", "html"}
  /\ capture' = Advance(id, "failing")
  /\ fs' = fs
  /\ BrowserUnchanged
  /\ CaptureUnchanged

\* lines 187-189: finally, page.close(); with the browser gone the page is
\* gone too and close rejects
CaptureClosePage(id) ==
  /\ InCapture(id)
  /\ Progress(id) \in {"png", "failing"}
  /\ ~fakeMode
  /\ pages' = pages \ {Page(id)}
  /\ capture' = Advance(id, IF Progress(id) = "png" /\ IsConnected(capture[id].browser)
                            THEN "closed" ELSE "threw")
  /\ UNCHANGED <<fs, browserPromise, browsers>>
  /\ CaptureUnchanged

\* the step of the call from which the summary is written
SummaryDue == IF fakeMode THEN "png" ELSE "closed"

\* mutant of Articles: the articles are those of the page in fake mode too
ArticlesOfPage(id) == capture[id].articles

\* lines 146-153, 174-181: the articles of the summary
Articles(id) ==
  IF fakeMode THEN fakeArticles(Trim(jobs[id].data.query.s)) ELSE capture[id].articles

\* lines 192-210: the summary is written and returned
CaptureSummary(id) ==
  /\ InCapture(id)
  /\ Progress(id) = SummaryDue
  /\ IF Exists(fs, jobDir(id))
     THEN /\ fs' = WriteFile(fs, summaryFile(id), now, SummaryArtifacts(id))
          /\ capture' = [capture EXCEPT
                           ![id].step = "summary",
                           ![id].summary = <<Summary(id, jobs[id].data, Articles(id), now)>>]
     ELSE /\ fs' = fs
          /\ capture' = Advance(id, "threw")
  /\ BrowserUnchanged
  /\ CaptureUnchanged

\* the processor's promise resolves with the summary
CaptureReturns(id) ==
  /\ Progress(id) = "summary"
  /\ RunComplete(id) \/ WorkerComplete(id)

\* the processor's promise rejects
CaptureThrows(id) ==
  /\ Progress(id) = "threw"
  /\ RunCatch(id) \/ WorkerFail(id)

\* An hour passes.  A capture attempt lasts seconds (navigationTimeout, line
\* 33), so an attempt under way sees the hour change at most once.
Tick ==
  /\ now < MaxClock
  /\ \A id \in Ids : (InCapture(id) /\ Progress(id) # "none") => capture[id].startedAt = now
  /\ now' = now + 1
  /\ UNCHANGED <<config, jobs, uuid, immediates, waitList, running, thrown,
                 inflight, requests, responses, http, session, fs,
                 retentionHours, capture, sweeps>>

\* POST /tasks with an accepted body
CaptureSubmit(body) ==
  /\ uuid < MaxCaptures
  /\ SubmitMemory(body) \/ SubmitDurable(body)

CaptureInit ==
  /\ QueueInit /\ maxAttempts = 2 /\ concurrency = 1
  /\ AuthDefault
  /\ StoreInit
  /\ retentionHours \in 0..MaxRetention
  /\ RealMode

\* the captures of the jobs submitted, with the cleanup script run at any
\* moment in between; the browser launches and stays up
CaptureNext ==
  \/ \E body \in HttpBodies : CaptureSubmit(body)
  \/ \E id \in JobIds : RespondDurable(id)
  \/ RunStart
  \/ WorkerDispatch
  \/ \E id \in JobIds : PromoteDelayed(id)
  \/ \E id \in JobIds : CaptureBegin(id)
  \/ \E id \in JobIds : CaptureGetBrowser(id)
  \/ \E b \in 1..MaxCaptures : LaunchResolves(b)
  \/ \E id \in JobIds : CaptureNewPage(id)
  \/ \E id \in JobIds : CaptureUserAgent(id, TRUE)
  \/ \E id \in JobIds : CaptureHtml(id, <<extracted>>)
  \/ \E id \in JobIds : CaptureScreenshot(id)
  \/ \E id \in JobIds : CaptureError(id)
  \/ \E id \in JobIds : CaptureClosePage(id)
  \/ \E id \in JobIds : CaptureSummary(id)
  \/ \E id \in JobIds : CaptureReturns(id)
  \/ \E id \in JobIds : CaptureThrows(id)
  \/ Sweep
  \/ Tick

CaptureSpec == CaptureInit /\ [][CaptureNext]_vars

\* Time passes, also while a capture is under way: lines 170-186 and 190
\* put the navigation, the extraction, the screenshot and the closing of
\* the page between the write of page.html and the reading of the clock for
\* fetchedAt, and the sweep compares instants (cleanup.js line 6), whatever
\* their distance.
Elapse ==
  /\ now < MaxClock
  /\ now' = now + 1
  /\ UNCHANGED <<config, jobs, uuid, immediates, waitList, running, thrown,
                 inflight, requests, responses, http, session, fs,
                 retentionHours, capture, sweeps>>

RetentionInit ==
  /\ QueueInit /\ useMemoryQueue /\ maxAttempts = 1 /\ concurrency = 1
  /\ AuthDefault
  /\ StoreInit
  /\ retentionHours \in 0..MaxRetention
  /\ RealMode

\* one capture that succeeds, step by step, with the clock moving and the
\* cleanup script run at any moment
RetentionNext ==
  \/ \E body \in HttpBodies : CaptureSubmit(body)
  \/ RunStart
  \/ \E id \in JobIds : CaptureBegin(id)
  \/ \E id \in JobIds : CaptureGetBrowser(id)
  \/ \E b \in 1..MaxCaptures : LaunchResolves(b)
  \/ \E id \in JobIds : CaptureNewPage(id)
  \/ \E id \in JobIds : CaptureUserAgent(id, TRUE)
  \/ \E id \in JobIds : CaptureHtml(id, <<extracted>>)
  \/ \E id \in JobIds : CaptureScreenshot(id)
  \/ \E id \in JobIds : CaptureClosePage(id)
  \/ \E id \in JobIds : CaptureSummary(id)
  \/ \E id \in JobIds : CaptureReturns(id)
  \/ Sweep
  \/ Elapse

RetentionSpec == RetentionInit /\ [][RetentionNext]_vars

\* --------------------------------------------- captures and their browser
\* a capture attempt launches at most one browser, and the memory driver
\* makes one attempt per job
LaunchIds == 1..MaxRequests

BrowserInit ==
  /\ QueueInit /\ useMemoryQueue /\ maxAttempts = 1 /\ concurrency = 1
  /\ AuthDefault
  /\ StoreDefault
  /\ RealMode

\* real captures running side by side under the memory driver, every step of
\* which may fail, with launches that fail and browsers that crash at any
\* moment
BrowserNext ==
  \/ \E body \in HttpBodies : SubmitMemory(body)
  \/ RunStart
  \/ \E id \in JobIds : CaptureBegin(id)
  \/ \E id \in JobIds : CaptureGetBrowser(id)
  \/ \E b \in LaunchIds : LaunchResolves(b)
  \/ \E b \in LaunchIds : LaunchRejects(b)
  \/ \E b \in LaunchIds : Crash(b)
  \/ \E id \in JobIds : CaptureNewPage(id)
  \/ \E id \in JobIds, accepted \in BOOLEAN : CaptureUserAgent(id, accepted)
  \/ \E id \in JobIds, articles \in ExtractedArticles : CaptureHtml(id, articles)
  \/ \E id \in JobIds : CaptureScreenshot(id)
  \/ \E id \in JobIds : CaptureError(id)
  \/ \E id \in JobIds : CaptureClosePage(id)
  \/ \E id \in JobIds : CaptureSummary(id)
  \/ \E id \in JobIds : CaptureReturns(id)
  \/ \E id \in JobIds : CaptureThrows(id)

BrowserSpec == BrowserInit /\ [][BrowserNext]_vars

\* --------------------------------------------------- shutdown (455-475)
ShutdownUnchanged ==
  UNCHANGED <<config, jobs, uuid, immediates, waitList, running, thrown,
              inflight, requests, responses, http, store, capture, fakeMode,
              pages>>

\* lines 469-475 and 455-462: the handler of SIGTERM or SIGINT calls
\* shutdown(); the close() of the memory driver's worker, scheduler and queue
\* (lines 267, 270-278) do nothing, so the test of line 462 is made before
\* any other callback runs: without a browser server.close() follows at
\* once, with one shutdown waits for it first
Signal ==
  /\ useMemoryQueue
  /\ phase = Running
  /\ phase' = IF browserPromise = 0 THEN Stopping ELSE Closing(browserPromise)
  /\ UNCHANGED <<browserPromise, browsers>>
  /\ ShutdownUnchanged

\* lines 463-466: the awaited launch has resolved; browser.close() ends the
\* browser, its listener of line 123 clears the handle, and server.close()
\* is called
ShutdownCloseBrowser ==
  /\ phase.at = "closing"
  /\ LET b == phase.browser IN
       /\ browsers[b].state \in {"connected", "disconnected"}
       /\ browsers' = [browsers EXCEPT ![b].state = "disconnected"]
       /\ browserPromise' = IF IsConnected(b) THEN OnDisconnected(browserPromise)
                                              ELSE browserPromise
  /\ phase' = Stopping
  /\ ShutdownUnchanged

\* the browsers of a process that ends go with it
ProcessGone(launched) ==
  [b \in DOMAIN launched |->
     IF launched[b].state \in {"launching", "connected"}
     THEN [state |-> "disconnected"] ELSE launched[b]]

\* line 463: the awaited launch had failed, the await throws and shutdown()
\* rejects with nobody to catch it (lines 469-475): the process ends on the
\* unhandled rejection, or goes on serving where the runtime only warns
ShutdownAborts(exits) ==
  /\ phase.at = "closing"
  /\ browsers[phase.browser].state = "failed"
  /\ IF exits
     THEN /\ phase' = Exited
          /\ browsers' = ProcessGone(browsers)
          /\ browserPromise' = 0
     ELSE /\ phase' = Abandoned
          /\ UNCHANGED <<browserPromise, browsers>>
  /\ ShutdownUnchanged

\* line 466: the callback of server.close() runs process.exit(0)
Exit ==
  /\ phase = Stopping
  /\ phase' = Exited
  /\ browsers' = ProcessGone(browsers)
  /\ browserPromise' = 0
  /\ ShutdownUnchanged

\* POST /tasks while the server listens
ShutdownSubmit(body) == Listening /\ SubmitMemory(body)

\* the callbacks of setImmediate while the process lives
ShutdownRunStart == Alive /\ RunStart

ShutdownInit ==
  /\ QueueInit /\ useMemoryQueue /\ maxAttempts = 1 /\ concurrency = 1
  /\ AuthDefault /\ StoreDefault /\ RealMode

\* the service under the memory driver with real captures, and a
\* termination signal at any moment
ShutdownNext ==
  \/ \E body \in HttpBodies : ShutdownSubmit(body)
  \/ ShutdownRunStart
  \/ \E id \in JobIds : CaptureBegin(id)
  \/ \E id \in JobIds : CaptureGetBrowser(id)
  \/ \E b \in LaunchIds : LaunchResolves(b)
  \/ \E b \in LaunchIds : LaunchRejects(b)
  \/ \E id \in JobIds : CaptureNewPage(id)
  \/ \E id \in JobIds : CaptureUserAgent(id, TRUE)
  \/ \E id \in JobIds : CaptureHtml(id, <<extracted>>)
  \/ \E id \in JobIds : CaptureScreenshot(id)
  \/ \E id \in JobIds : CaptureError(id)
  \/ \E id \in JobIds : CaptureClosePage(id)
  \/ \E id \in JobIds : CaptureSummary(id)
  \/ \E id \in JobIds : CaptureReturns(id)
  \/ \E id \in JobIds : CaptureThrows(id)
  \/ Signal
  \/ ShutdownCloseBrowser
  \/ \E exits \in BOOLEAN : ShutdownAborts(exits)
  \/ Exit

ShutdownSpec == ShutdownInit /\ [][ShutdownNext]_vars

\* ------------------------------------------------------- fake mode (146-163)
\* In fake mode captureSearch holds no await: the call made by run (line 244)
\* or by the worker runs to its end within one turn of the event loop, and with
\* the memory driver the continuation of run follows as a microtask.  While
\* such a turn is open the process takes no request and runs no other callback.
TurnOpen ==
  /\ fakeMode
  /\ \E id \in Ids :
       /\ running[id] > 0
       /\ useMemoryQueue \/ Progress(id) \notin {"summary", "threw"}

\* the bodies of the requests of FakeSpec: a query, the same with spaces
\* around it, and the query with a maxArticles, a locale, a metadata object,
\* and a locale that is no string
FakeBodies ==
  { [query |-> Str(<<"a">>), maxArticles |-> Undefined],
    [query |-> Str(<<" ", "a", " ">>), maxArticles |-> Undefined],
    [query |-> Str(<<"a">>), maxArticles |-> Num(7)],
    [query |-> Str(<<"a">>), maxArticles |-> Undefined,
     locale |-> Str(<<"f", "r", "-", "C", "A">>)],
    [query |-> Str(<<"a">>), maxArticles |-> Undefined,
     metadata |-> Object(<<"k">>)],
    [query |-> Str(<<"a">>), maxArticles |-> Undefined, locale |-> Num(5)] }

FakeSubmit(body) ==
  /\ ~TurnOpen
  /\ SubmitMemory(body) \/ SubmitDurable(body)

FakeRespond(id) == ~TurnOpen /\ RespondDurable(id)

FakeRunStart == ~TurnOpen /\ RunStart

FakeDispatch == ~TurnOpen /\ WorkerDispatch

FakeTick == ~TurnOpen /\ Tick

FakeInit ==
  /\ QueueInit /\ maxAttempts = 1 /\ concurrency = 1
  /\ AuthDefault
  /\ StoreDefault
  /\ fakeMode = TRUE
  /\ SessionInit

\* the jobs of a service in fake mode, under both backends
FakeNext ==
  \/ \E body \in FakeBodies : FakeSubmit(body)
  \/ \E id \in JobIds : FakeRespond(id)
  \/ FakeRunStart
  \/ FakeDispatch
  \/ \E id \in JobIds : CaptureBegin(id)
  \/ \E id \in JobIds : CaptureHtml(id, <<>>)
  \/ \E id \in JobIds : CaptureScreenshot(id)
  \/ \E id \in JobIds : CaptureSummary(id)
  \/ \E id \in JobIds : CaptureReturns(id)
  \/ \E id \in JobIds : CaptureThrows(id)
  \/ FakeTick

FakeSpec == FakeInit /\ [][FakeNext]_vars

\* ------------------------- GET /tasks/:id/artifacts/:type (84-86, 415-441)
\* Strings are sequences of characters here, since the route works on the
\* characters of the id.  [a-zA-Z0-9_-], on the characters of the model:
KeyChars == {"a", "b", "1", "2", "_", "-"}

\* mutant of safeJobKey: the id is used as it comes
safeJobKeyAsIs(jobId) == jobId

\* mutant of safeJobKey: the replacement is a character ids are made of
safeJobKeyWithDash(jobId) ==
  [i \in 1..Len(jobId) |-> IF jobId[i] \in KeyChars THEN jobId[i] ELSE "-"]

\* lines 84-86
safeJobKey(jobId) ==
  [i \in 1..Len(jobId) |-> IF jobId[i] \in KeyChars THEN jobId[i] ELSE "_"]

PageHtml == <<"p", "a", "g", "e", ".", "h", "t", "m", "l">>
ScreenshotPng == <<"s", "c", "r", "e", "e", "n", "s", "h", "o", "t", ".", "p", "n", "g">>
SummaryJson == <<"s", "u", "m", "m", "a", "r", "y", ".", "j", "s", "o", "n">>

\* lines 415-419 and 422: artifactFiles[req.params.type]; a plain object
\* also answers the names it inherits from Object.prototype
artifactFiles(type) ==
  CASE type = "html" -> Str(PageHtml)
    [] type = "screenshot" -> Str(ScreenshotPng)
    [] type = "summary" -> Str(SummaryJson)
    [] type \in {"constructor", "toString", "hasOwnProperty"} ->
         JSVal("function", 0, FALSE, <<>>)
    [] type = "__proto__" -> JSVal("object", 0, FALSE, <<>>)
    [] OTHER -> Undefined

\* line 30: screenshotDir, /w in the model
screenshotDir == <<"/", "w">>

\* the segments of a path: the pieces between the slashes
RECURSIVE SplitPath(_, _)
SplitPath(s, segment) ==
  IF s = <<>> THEN <<segment>>
  ELSE IF Head(s) = "/" THEN <<segment>> \o SplitPath(Tail(s), <<>>)
  ELSE SplitPath(Tail(s), Append(segment, Head(s)))

\* path.normalize on the segments of an absolute path: empty segments and
\* "." are dropped, ".." drops the segment before it and is dropped at "/"
RECURSIVE NormalizeSegments(_, _)
NormalizeSegments(segments, done) ==
  IF segments = <<>> THEN done
  ELSE LET sg == Head(segments) IN
    IF sg = <<>> \/ sg = <<".">> THEN NormalizeSegments(Tail(segments), done)
    ELSE IF sg = <<".", ".">>
    THEN NormalizeSegments(Tail(segments),
                           IF done = <<>> THEN done ELSE SubSeq(done, 1, Len(done) - 1))
    ELSE NormalizeSegments(Tail(segments), Append(done, sg))

RECURSIVE RenderPath(_)
RenderPath(segments) ==
  IF segments = <<>> THEN <<>>
  ELSE <<"/">> \o Head(segments) \o RenderPath(Tail(segments))

RECURSIVE JoinWithSlash(_)
JoinWithSlash(parts) ==
  IF parts = <<>> THEN <<>>
  ELSE IF Len(parts) = 1 THEN Head(parts)
  ELSE Head(parts) \o <<"/">> \o JoinWithSlash(Tail(parts))

\* path.join(...parts) with an absolute first part
pathJoin(parts) ==
  LET segments == NormalizeSegments(SplitPath(JoinWithSlash(parts), <<>>), <<>>) IN
    IF segments = <<>> THEN <<"/">> ELSE RenderPath(segments)

\* lines 137-138: the directory captureSearch writes for a job id
JobDirOf(id) == pathJoin(<<screenshotDir, safeJobKey(id)>>)

\* line 256 and the Redis id counter: the ids enqueue hands out are made of
\* hexadecimal digits and dashes (randomUUID) or of decimal digits
QueueIds ==
  { <<"1">>, <<"2">>, <<"1", "2">>, <<"a", "-", "b">>, <<"b", "-", "a">>,
    <<"a", "-", "1">> }

\* the answer of the route and the path it handed to existsSync / sendFile;
\* exists is what fs.existsSync answers for that path
ArtifactAnswer(id, type, exists) ==
  LET fileName == artifactFiles(type)
      safeKey == safeJobKey(id)
  IN
    IF ~Truthy(fileName) THEN [status |-> 404, body |-> "unknown artifact", read |-> <<>>]
    ELSE IF fileName.t # "string"
    THEN [status |-> 500, body |-> "TypeError", read |-> <<>>]
    ELSE LET filePath == pathJoin(<<screenshotDir, safeKey, fileName.s>>) IN
      IF ~StartsWith(filePath, pathJoin(<<screenshotDir, safeKey>>))
      THEN [status |-> 400, body |-> "invalid path", read |-> <<>>]
      ELSE IF ~exists
      THEN [status |-> 404, body |-> "artifact not found", read |-> filePath]
      ELSE [status |-> 200, body |-> "file", read |-> filePath]

\* the ids and types of the requests: plain ones, and ones built to leave
\* the directory (Express hands the route the decoded parameter, so an id
\* may hold a slash)
ArtifactIds ==
  { <<"1">>, <<"a", "-", "b">>, <<"a", ".", "b">>, <<".">>, <<".", ".">>,
    <<".", ".", "/", ".", ".">>, <<"1", "/", ".", ".", "/", "2">>,
    <<"/", "a">>, <<"a", "/">> }

ArtifactTypes ==
  { "html", "screenshot", "summary", "constructor", "__proto__", "toString",
    "page.html", "../summary", "" }

\* GET /tasks/:id/artifacts/:type behind the middleware
GetArtifact(h, id, type, exists) ==
  /\ Gate(h) = Admitted
  /\ LET a == ArtifactAnswer(id, type, exists) IN
       exchange' = [route |-> "GET /tasks/:id/artifacts/:type",
                    credential |-> Credential(h), status |-> a.status,
                    handled |-> TRUE, body |-> a.body, result |-> "absent",
                    id |-> id, read |-> a.read,
                    counted |-> <<Labels("GET /tasks/:id/artifacts/:type",
                                         TRUE, a.status)>>]
  /\ UNCHANGED <<config, jobs, uuid, immediates, waitList, running, thrown,
                 inflight, requests, responses, serviceToken,
                 allowAuthorizationHeader, ready, fetched, store, session>>

\* the credentials of the requests of ArtifactSpec: none, and the default
\* secret
ArtifactHeaders ==
  { [token |-> Undefined, authorization |-> Undefined],
    [token |-> Str(<<"w">>), authorization |-> Undefined] }

ArtifactInit ==
  /\ QueueInit /\ maxAttempts = 1 /\ concurrency = 1
  /\ AuthConfig
  /\ StoreDefault
  /\ RealMode

ArtifactNext ==
  \/ \E h \in ArtifactHeaders : GateRejects("GET /tasks/:id/artifacts/:type", h)
  \/ \E h \in ArtifactHeaders, id \in ArtifactIds, type \in ArtifactTypes, exists \in BOOLEAN :
       GetArtifact(h, id, type, exists)

ArtifactSpec == ArtifactInit /\ [][ArtifactNext]_vars

\* ------------------------------------ the artifact route over the store
\* req.params.id for the id of a job: the ids of the model are one digit
IdChars(id) == <<ToString(id)>>

\* lines 415-419: the three types of artifactFiles
KnownTypes == { "html", "screenshot", "summary" }

\* lines 415-419: the file of the job's directory that the type names
StoredFile(id, type) ==
  CASE type = "html" -> htmlFile(id)
    [] type = "screenshot" -> screenshotFile(id)
    [] type = "summary" -> summaryFile(id)

\* lines 421-441 with fs.existsSync (line 431) answered by the store: the
\* route looks at the file and never at the job
GetStoredArtifact(id, type) ==
  GetArtifact([token |-> defaultServiceToken, authorization |-> Undefined],
              IdChars(id), type, Exists(fs, StoredFile(id, type)))

ServeInit ==
  /\ QueueInit /\ useMemoryQueue /\ maxAttempts = 1 /\ concurrency = 1
  /\ AuthDefault /\ StoreDefault /\ RealMode

\* one capture, step by step, that succeeds or fails, and artifact requests
\* for its id and for an id no job has, at any moment
ServeNext ==
  \/ \E body \in HttpBodies : CaptureSubmit(body)
  \/ RunStart
  \/ \E id \in JobIds : CaptureBegin(id)
  \/ \E id \in JobIds : CaptureGetBrowser(id)
  \/ \E b \in 1..MaxCaptures : LaunchResolves(b)
  \/ \E id \in JobIds : CaptureNewPage(id)
  \/ \E id \in JobIds : CaptureUserAgent(id, TRUE)
  \/ \E id \in JobIds : CaptureHtml(id, <<extracted>>)
  \/ \E id \in JobIds : CaptureScreenshot(id)
  \/ \E id \in JobIds : CaptureError(id)
  \/ \E id \in JobIds : CaptureClosePage(id)
  \/ \E id \in JobIds : CaptureSummary(id)
  \/ \E id \in JobIds : CaptureReturns(id)
  \/ \E id \in JobIds : CaptureThrows(id)
  \/ \E id \in RequestIds, type \in KnownTypes : GetStoredArtifact(id, type)

ServeSpec == ServeInit /\ [][ServeNext]_vars

\* ================================================================= claims
\* The states of the data model: BullMQ's waiting and delayed are both Queued.
SpecState(job) ==
  CASE job.state \in {"waiting", "delayed"} -> "Queued"
    [] job.state = "active" -> "Active"
    [] job.state = "completed" -> "Completed"
    [] job.state = "failed" -> "Failed"

Terminal(job) == job.state \in {"completed", "failed"}

ForwardMoves ==
  { <<"Queued", "Active">>, <<"Active", "Completed">>, <<"Active", "Failed">> }

\* C1 (as claimed): in both backends a job's state only moves along
\* Queued -> Active -> Completed or Queued -> Active -> Failed.
C1_StateOnlyAdvances ==
  [][\A id \in Ids :
       \/ SpecState(jobs'[id]) = SpecState(jobs[id])
       \/ <<SpecState(jobs[id]), SpecState(jobs'[id])>> \in ForwardMoves]_vars

\* C1 (amended): a job is created Queued, never leaves Completed or Failed, and
\* moves only forward, except that in the durable backend an attempt that throws
\* while attempts are left returns the job from Active to Queued for its retry.
C1_AdvancesExceptRetry ==
  [][/\ \A id \in (DOMAIN jobs') \ Ids : SpecState(jobs'[id]) = "Queued"
     /\ \A id \in Ids :
          \/ SpecState(jobs'[id]) = SpecState(jobs[id])
          \/ <<SpecState(jobs[id]), SpecState(jobs'[id])>> \in ForwardMoves
          \/ /\ ~useMemoryQueue
             /\ SpecState(jobs[id]) = "Active"
             /\ SpecState(jobs'[id]) = "Queued"
             /\ jobs[id].attemptsMade < maxAttempts
             /\ thrown'[id] = thrown[id] + 1]_vars

\* C1 witness: a job of the durable backend completed on its second attempt,
\* after going back from Active to Queued once.
C1_Witness ==
  \E id \in Ids :
    /\ ~useMemoryQueue
    /\ jobs[id].state = "completed"
    /\ jobs[id].attemptsMade = 2
    /\ thrown[id] = 1

C3_FailedOnlyAfterMaxAttempts ==
  maxAttempts >= 1 =>
    \A id \in Ids :
      jobs[id].state = "failed" =>
        jobs[id].attemptsMade = maxAttempts /\ jobs[id].failedReason # "undefined"

\* C4: a job whose processor has thrown k < maxAttempts times is rescheduled, not
\* Failed, and a Completed job has made one attempt more than it has thrown.
C4_RetriedUntilSuccess ==
  \A id \in Ids :
    /\ jobs[id].state = "failed" => thrown[id] >= maxAttempts
    /\ jobs[id].state = "completed" => jobs[id].attemptsMade = thrown[id] + 1

\* C5: at most one execution of a job is in progress, and a job whose processor
\* is running is Active.
C5_OneExecutionPerJob ==
  \A id \in Ids :
    /\ running[id] <= 1
    /\ running[id] = 1 => jobs[id].state = "active"

\* C5 witness: a retried job is running its second attempt while another job
\* is running too.
C5_Witness ==
  \E a, b \in Ids :
    /\ a # b
    /\ running[a] = 1 /\ jobs[a].attemptsMade = 2
    /\ running[b] = 1

\* C6: the number of Active jobs never exceeds the configured concurrency, in
\* either backend.
C6_ActiveWithinConcurrency ==
  Cardinality({id \in Ids : jobs[id].state = "active"}) <= concurrency

\* a 202 carrying this id has been sent
Acked(id) == \E i \in DOMAIN responses : responses[i] = Response(202, id)

\* C7: every job whose Submit was answered 202 eventually is Completed or
\* Failed, and is still in the queue then.
C7_AcknowledgedJobsFinish ==
  \A id \in JobIds : Acked(id) ~> (id \in Ids /\ Terminal(jobs[id]))

\* C7 witness: an acknowledged job of the durable backend has failed for good
\* after a retry while another acknowledged job has completed.
C7_Witness ==
  \E a, b \in Ids :
    /\ Acked(a) /\ jobs[a].state = "failed" /\ jobs[a].attemptsMade >= 2
    /\ Acked(b) /\ jobs[b].state = "completed"

\* the queries the claim calls invalid: missing, not a string, empty or made of
\* white space only
BlankQuery(query) ==
  \/ query.t # "string"
  \/ \A i \in 1..Len(query.s) : query.s[i] \in WhiteSpace

\* this step is POST /tasks with this body
Submits(body) == SubmitRejected(body) \/ SubmitMemory(body) \/ SubmitDurable(body)

\* C8: a Submit with a blank query answers 400 without an id and leaves the
\* jobs and both queues as they were.
C8_BlankQueryRejected ==
  [][\A body \in {b \in Bodies : BlankQuery(b.query)} :
       (requests' # requests /\ Submits(body)) =>
         /\ responses' = Append(responses, Response(400, NoId))
         /\ UNCHANGED <<jobs, uuid, immediates, waitList, running, inflight>>]_vars

\* C8 witness: a rejected Submit after an accepted one; the one job is the
\* accepted one.
C8_Witness ==
  /\ Len(responses) = 2
  /\ responses[1] = Response(202, 1)
  /\ responses[2] = Response(400, NoId)
  /\ Ids = {1}
  /\ requests = 2

\* C9: the maxArticles of every enqueued payload is an integer in [1,20].
C9_MaxArticlesIntegerInRange ==
  \A id \in Ids :
    LET m == jobs[id].data.maxArticles IN
      /\ m.t = "number"
      /\ ~m.frac
      /\ 1 <= m.int /\ m.int <= 20

\* this step sends the 202 that carries this id
Acks(id) == responses' = Append(responses, Response(202, id))

\* C10 (as claimed): every 202 carries an id never returned before, and when it
\* is sent the job is Queued with attemptsMade = 0.
C10_QueuedWhenAcknowledged ==
  [][\A id \in JobIds :
       Acks(id) =>
         /\ ~Acked(id)
         /\ id \in DOMAIN jobs'
         /\ jobs'[id].state = "waiting"
         /\ jobs'[id].attemptsMade = 0]_vars

\* C10 (amended): every 202 carries an id never returned before and the id of a
\* job in the queue; enqueue creates the job Queued with attemptsMade = 0 and no
\* execution started; with the in-process backend the job is still so when the
\* 202 is sent (with the durable backend a worker may have taken it by then).
C10_FreshIdQueuedAtEnqueue ==
  [][/\ \A id \in JobIds :
          Acks(id) =>
            /\ ~Acked(id)
            /\ id \in DOMAIN jobs'
            /\ useMemoryQueue =>
                 /\ jobs'[id].state = "waiting"
                 /\ jobs'[id].attemptsMade = 0
                 /\ running'[id] = 0
     /\ \A body \in Bodies :
          (SubmitMemory(body) \/ SubmitDurable(body)) =>
            \E id \in (DOMAIN jobs') \ Ids :
              /\ jobs'[id] = NewJob(JobData(body))
              /\ running'[id] = 0
              /\ \A other \in Ids : jobs'[other] = jobs[other]]_vars

\* C10 witness: the durable backend has acknowledged the first job, which has
\* completed, and the second job is already running while its 202 is still
\* to be sent.
C10_Witness ==
  /\ ~useMemoryQueue
  /\ responses = <<Response(202, 1)>>
  /\ jobs[1].state = "completed"
  /\ 2 \in inflight
  /\ jobs[2].state = "active"

\* ------------------------------------------------------- C11 .. C14: the gate
\* a header that is absent or holds white space only
BlankHeader(v) == ~Truthy(v) \/ Trim(v.s) = <<>>

\* the request carries nothing in either header
NoCredential(h) == BlankHeader(h.token) /\ BlankHeader(h.authorization)

\* the request carries, in the service token header, something else than the
\* shared secret
WrongCredential(h) ==
  /\ ~BlankHeader(h.token)
  /\ serviceToken.t = "string" => Trim(h.token.s) # serviceToken.s

\* this step answers a request on the route with the headers h
Handles(route, h) ==
  \/ GateRejects(route, h)
  \/ route = "POST /tasks" /\ \E body \in QueueBodies : GatedSubmit(h, body)
  \/ route = "GET /healthz" /\ \E pingOk \in BOOLEAN : Healthz(h, pingOk)

\* this step answers with the status, runs no route handler and leaves the
\* jobs and the artifact store as they were
RejectedWith(status) ==
  /\ exchange'.status = status
  /\ ~exchange'.handled
  /\ UNCHANGED <<jobs, uuid, immediates, waitList, inflight, responses, fs>>

GatedRoutes == Routes \ {"GET /healthz"}

\* C11: on every route other than health, a request without a credential is
\* answered 401 and a request with a credential other than the shared secret
\* is answered 403, and in both cases no route handler runs: no job is
\* created, nothing is read from the artifact store.
C11_GateRejects ==
  [][\A route \in GatedRoutes, h \in Headers :
       Handles(route, h) =>
         /\ NoCredential(h) => RejectedWith(401)
         /\ WrongCredential(h) => RejectedWith(403)]_vars

\* C12: a health request without a credential, or with a wrong one, is
\* answered by the health handler, with 200 or 503, never with 401 or 403.
C12_HealthOutsideGate ==
  [][\A h \in Headers :
       (Handles("GET /healthz", h) /\ (NoCredential(h) \/ WrongCredential(h))) =>
         /\ exchange'.handled
         /\ exchange'.status \in {200, 503}]_vars

\* the request carries 'Bearer <secret>' in the Authorization header
BearerSecret(h) ==
  /\ serviceToken.t = "string"
  /\ h.authorization = Str(<<"B", "e", "a", "r", "e", "r", " ">> \o serviceToken.s)

\* C13 as stated: with the alternate header accepted, every request with
\* 'Bearer <secret>' in Authorization is admitted; with it not accepted, a
\* request with the secret only in Authorization is answered 401.
C13_BearerAdmitted ==
  \A h \in Headers :
    /\ (allowAuthorizationHeader /\ BearerSecret(h)) => Gate(h) = Admitted
    /\ (~allowAuthorizationHeader /\ BearerSecret(h) /\ BlankHeader(h.token))
         => Gate(h) = 401

\* C13, amended: the Authorization header is read only when the service
\* token header is absent or blank; such a request with 'Bearer <secret>' is
\* admitted when the alternate header is accepted and answered 401 when not.
C13_BearerAdmittedAsFallback ==
  \A h \in Headers :
    /\ (allowAuthorizationHeader /\ BearerSecret(h) /\ BlankHeader(h.token))
         => Gate(h) = Admitted
    /\ (~allowAuthorizationHeader /\ BearerSecret(h) /\ BlankHeader(h.token))
         => Gate(h) = 401

\* a health request was admitted on its Authorization header, under a
\* configured secret
C13_Witness ==
  /\ Truthy(serviceToken)
  /\ exchange.route = "GET /healthz"
  /\ exchange.handled
  /\ exchange.credential = "authorization"

AnswersTask(h, id) ==
  \/ GetTaskMissing(h, id)
  \/ GetTaskMemory(h, id)
  \/ fetched # <<>> /\ Head(fetched).id = id /\ GetTaskState

\* C15: Status answers 404 for every id Submit never handed out and 200 for
\* every id it returned, at every later time and in every state of the job;
\* the answer holds a result field exactly when the state it reports is
\* completed.
C15_StatusOfEveryId ==
  [][\A id \in RequestIds :
       (exchange'.route = "GET /tasks/:id" /\ <<exchange, fetched>>' # <<exchange, fetched>>) =>
         \A h \in HttpHeaders :
           AnswersTask(h, id) =>
             /\ id \notin Ids => exchange'.status = 404
             /\ Acked(id) => exchange'.status = 200
             /\ exchange'.status = 200 =>
                  (exchange'.result # "absent" <=> exchange'.body = "completed")]_vars

\* a job that Submit returned was reported completed, with its result
C15_Witness ==
  /\ exchange.route = "GET /tasks/:id"
  /\ exchange.status = 200
  /\ exchange.body = "completed"
  /\ exchange.result = "summary"
  /\ \E id \in Ids : Acked(id) /\ jobs[id].state = "completed"

\* -------------------------------------------------- C17, C19: the sweep
\* C17: after a sweep a regular file, at any depth, is still present exactly
\* when its own mtime is not older than now - retentionWindow, whatever the
\* mtime of the directory that holds it.
C17_FileKeptByOwnMtime ==
  [][Sweep =>
       \A p \in DOMAIN fs :
         fs[p].kind = "file" =>
           (Exists(fs', p) <=> fs[p].mtime >= Cutoff(now, retentionHours))]_vars

\* a directory below the root without an entry
EmptyDirs(f) ==
  { p \in DOMAIN f : p # Root /\ f[p].kind = "dir" /\ ReadDir(f, p) = {} }

\* C19: with the clock fixed a second sweep changes nothing; after a sweep
\* no empty directory is left below the root; the root is never removed.
C19_SweepIdempotent ==
  [][Sweep =>
       /\ sweeps >= 1 => fs' = fs
       /\ EmptyDirs(fs') = {}
       /\ Exists(fs, Root) => Exists(fs', Root)]_vars

\* a second sweep has run over a store from which the first removed a stale
\* file and the directory it left empty, and a file is still there
C19_Witness ==
  /\ sweeps = 2
  /\ Exists(fs, Root)
  /\ ~Exists(fs, <<"j">>)
  /\ Exists(fs, <<"user-agent.txt">>)

\* ------------------------------------------ C16, C18: capture and sweep
\* the step writes the file: it is created, or its entry changes
Written(p) == Exists(fs', p) /\ (Exists(fs, p) => fs'[p] # fs[p])

BecomesCompleted(id) ==
  /\ id \in Ids
  /\ jobs[id].state # "completed"
  /\ jobs'[id].state = "completed"

\* C16: within one capture attempt the artifacts are written in the order
\* html, screenshot, summary; the job becomes Completed only after the
\* summary has been written; and at the moment it is first Completed its
\* three files exist and the summary's artifact paths name them.
C16_ArtifactsBeforeCompleted ==
  [][\A id \in JobIds :
       /\ (id \in Ids /\ Written(screenshotFile(id))) =>
            Progress(id) = "html"
       /\ (id \in Ids /\ Written(summaryFile(id))) =>
            Progress(id) = SummaryDue
       /\ BecomesCompleted(id) =>
            /\ Progress(id) = "summary"
            /\ SummaryArtifacts(id) \subseteq DOMAIN fs'
            /\ fs'[summaryFile(id)].artifacts = SummaryArtifacts(id)]_vars

\* C18: a sweep that runs between the steps of a capture removes neither
\* the directory nor a file of a job that is Active, and so never makes the
\* attempt fail.
C18_SweepSparesActiveJobs ==
  [][Sweep =>
       \A id \in Ids :
         jobs[id].state = "active" =>
           \A p \in Below(fs, jobDir(id)) : Exists(fs', p)]_vars

\* ------------------------------------------------------ C20: the artifact route
ArtifactNames == { PageHtml, ScreenshotPng, SummaryJson }

\* the path is one of the three files directly inside the directory that
\* carries the sanitized id below the artifact root
InsideJobDirectory(path, id) ==
  LET segments == SplitPath(path, <<>>)
      key == [i \in 1..Len(id) |-> IF id[i] \in KeyChars THEN id[i] ELSE "_"]
  IN
    /\ Len(segments) = 4
    /\ <<segments[1], segments[2]>> = << <<>>, <<"w">> >>
    /\ segments[3] = key
    /\ \A i \in 1..Len(key) : key[i] \in KeyChars
    /\ segments[4] \in ArtifactNames

\* C20: whatever the id and the type, the only file the artifact route reads
\* is page.html, screenshot.png or summary.json directly inside
\* <artifact root>/<sanitized id>; no request reads a path outside it.
C20_ReadsStayInJobDirectory ==
  exchange.route = "GET /tasks/:id/artifacts/:type" =>
    \/ exchange.read = <<>>
    \/ InsideJobDirectory(exchange.read, exchange.id)

\* a request whose id is ../.. was answered with a file
C20_Witness ==
  /\ exchange.route = "GET /tasks/:id/artifacts/:type"
  /\ exchange.status = 200
  /\ exchange.id = <<".", ".", "/", ".", ".">>
  /\ exchange.read = pathJoin(<<screenshotDir, <<"_", "_", "_", "_", "_">>, PageHtml>>)

\* ------------------------------------------------ C21: unknown artifact types

\* C21: an artifact request is answered 404 for every type other than html,
\* screenshot and summary, names of built-in object properties included, and
\* 404 for a known type whose file is absent; an unknown type is never
\* answered with a server error.
C21_UnknownTypeNotFound ==
  [][\A h \in ArtifactHeaders, id \in ArtifactIds, type \in ArtifactTypes, exists \in BOOLEAN :
       (exchange'.handled /\ GetArtifact(h, id, type, exists)) =>
         /\ type \notin KnownTypes => exchange'.status = 404
         /\ (type \in KnownTypes /\ ~exists) => exchange'.status = 404]_vars

\* ------------------------------------------- C27, C28: the fields of a job
\* the fields the status answer reports
Fields(job) == <<job.state, job.attemptsMade, job.returnvalue, job.failedReason>>

\* C27: once a job is Completed or Failed, its state, attemptsMade, result
\* and failure reason are not written again by any later event.
C27_TerminalJobsFrozen ==
  [][\A id \in Ids :
       Terminal(jobs[id]) =>
         /\ id \in DOMAIN jobs'
         /\ Fields(jobs'[id]) = Fields(jobs[id])]_vars

\* a job of the durable backend has completed, and after that another one
\* has been retried and has failed for good
C27_Witness ==
  /\ ~useMemoryQueue
  /\ Ids = {1, 2}
  /\ jobs[1].state = "completed"
  /\ jobs[2].state = "failed"
  /\ thrown[2] >= 2
  /\ inflight = {}

\* C28: in every state a job has a result only if it is Completed and a
\* failure reason only if it is Failed; no job carries a failure reason
\* while Queued, Active or Completed, between retries included.
C28_ResultAndReasonFollowState ==
  \A id \in Ids :
    /\ jobs[id].returnvalue # "undefined" => jobs[id].state = "completed"
    /\ jobs[id].failedReason # "undefined" => jobs[id].state = "failed"

\* ------------------------------------------------------ C24, C25: metrics
\* C24: every request that finishes, on any route and whether the gate
\* rejects it or not, increments the request counter exactly once, under the
\* labels of its method, its route and its final status code.
C24_EveryResponseCounted ==
  /\ exchange.route # "none" =>
       exchange.counted = <<Labels(exchange.route, exchange.handled, exchange.status)>>
  /\ \A i \in DOMAIN responses :
       responses[i].counted = <<Labels("POST /tasks", TRUE, responses[i].status)>>

\* the job states the gauges are to count
GaugedStates == { "Queued", "Active", "Failed" }

\* C25: the metrics output carries a gauge for the pending, the active and
\* the failed jobs (each equal, at every moment, to the number of jobs in
\* that state).
C25_QueueGauges ==
  (exchange.route = "GET /metrics" /\ exchange.handled) =>
    \A state \in GaugedStates :
      \E m \in metricsRegistry : m.type = "gauge" /\ m.measures = state

\* ---------------------------------------------------- C22, C23: fake mode
\* the job has returned a summary
HasSummary(id) == id \in DOMAIN capture /\ capture[id].summary # <<>>

SummaryOf(id) == capture[id].summary[1]

\* the fields of a summary other than id, timestamps and artifact paths
Comparable(summary) ==
  [query |-> summary.query, locale |-> summary.locale,
   searchUrl |-> summary.searchUrl, metadata |-> summary.metadata,
   articles |-> summary.articles]

SameInputs(a, b) ==
  /\ jobs[a].data.query = jobs[b].data.query
  /\ jobs[a].data.locale = jobs[b].data.locale
  /\ jobs[a].data.metadata = jobs[b].data.metadata

IsPlaceholder(article) ==
  /\ article.url = "https://example.com/adverse-media-placeholder"
  /\ article.source = "example.com"

\* C22: in fake mode two jobs with the same query, locale and metadata
\* produce summaries equal in every field but id, timestamps and artifact
\* paths, each with exactly one placeholder article, and no browser is ever
\* launched.
C22_FakeModeDeterministic ==
  fakeMode =>
    /\ \A a, b \in Ids :
         (HasSummary(a) /\ HasSummary(b) /\ SameInputs(a, b)) =>
           Comparable(SummaryOf(a)) = Comparable(SummaryOf(b))
    /\ \A a \in Ids :
         HasSummary(a) =>
           /\ Len(SummaryOf(a).articles) = 1
           /\ IsPlaceholder(SummaryOf(a).articles[1])
    /\ browsers = <<>>
    /\ browserPromise = 0
    /\ pages = {}

\* two jobs with the same inputs have completed in fake mode, at different
\* hours
C22_Witness ==
  /\ fakeMode
  /\ Ids = {1, 2}
  /\ HasSummary(1) /\ HasSummary(2)
  /\ SameInputs(1, 2)
  /\ jobs[1].state = "completed" /\ jobs[2].state = "completed"
  /\ SummaryOf(1).fetchedAt # SummaryOf(2).fetchedAt
  /\ SummaryOf(1).id # SummaryOf(2).id

\* C23: in fake mode with the in-process backend no accepted job ends
\* Failed, and a Completed job's result holds the submitted query without
\* the white space around it and exactly one article.
C23_FakeJobsComplete ==
  (fakeMode /\ useMemoryQueue) =>
    \A id \in Ids :
      /\ jobs[id].state # "failed"
      /\ jobs[id].state = "completed" =>
           /\ HasSummary(id)
           /\ SummaryOf(id).query = Trim(jobs[id].data.query.s)
           /\ Len(SummaryOf(id).articles) = 1

\* ------------------------------------------- C29, C30: pages and browsers
\* the pages that exist: those of a browser that is still there
OpenPages == { p \in pages : IsConnected(p.browser) }

\* C29: every page opened for a capture is closed when that attempt ends,
\* whichever step after opening it fails: the open pages are those of the
\* captures still in progress, one each.
C29_PagesClosedWithAttempt ==
  /\ \A p \in OpenPages : InCapture(p.job) /\ jobs[p.job].attemptsMade = p.attempt
  /\ Cardinality(OpenPages) <= Cardinality({ id \in Ids : InCapture(id) })

\* launched and neither crashed nor closed
Live(b) == browsers[b].state \in {"launching", "connected"}

Accepted202 ==
  /\ Len(responses') = Len(responses) + 1
  /\ responses'[Len(responses')].status = 202

\* a job moves from Queued to Active in this step
Dispatched == \E id \in Ids : jobs[id].state = "waiting" /\ jobs'[id].state = "active"

\* C26: from the moment a termination signal is handled, no Submit is
\* answered 202 and no job moves from Queued to Active.
C26_ShutdownStopsIntake ==
  [][phase # Running => ~Accepted202 /\ ~Dispatched]_vars

\* ------------------------------------------------ C31: thrown values
\* the processor call of the job has thrown and run has dealt with it
ThrewAndSettled(id) == thrown[id] > 0 /\ running[id] = 0

AckedBefore(a, b) ==
  \E i, j \in DOMAIN responses :
    /\ i < j
    /\ responses[i].status = 202 /\ responses[i].id = a
    /\ responses[j].status = 202 /\ responses[j].id = b

\* the job has been moved to Active at least once
HasBeenActive(id) == jobs[id].attemptsMade >= 1

\* C32: if Submit for job A was acknowledged before Submit for job B, then
\* A becomes Active no later than B: once B has been Active, A has been.
C32_FifoDispatch ==
  \A a, b \in Ids : AckedBefore(a, b) /\ HasBeenActive(b) => HasBeenActive(a)

\* two jobs acknowledged one after the other and dispatched in that order:
\* the first has completed, the second is Active
C32_Witness ==
  \E a, b \in Ids :
    /\ AckedBefore(a, b)
    /\ jobs[a].attemptsMade = 1 /\ jobs[b].attemptsMade = 1
    /\ jobs[a].state = "completed" /\ jobs[b].state = "active"

\* ---------------------------------------------- C33, C34: shutdown paths
\* C33: after a termination signal the shutdown sequence always finishes
\* with the HTTP server closed, on every path, also when the browser launch
\* had failed: the wait for the browser ends in server.close() only.
C33_ShutdownReachesServerClose ==
  [][phase.at = "closing" => phase'.at \in {"closing", "stopping"}]_vars

\* a capture attempt under way holds a page of browser b
UsedByCapture(b) ==
  \E p \in pages :
    /\ p.browser = b
    /\ InCapture(p.job)
    /\ p.attempt = jobs[p.job].attemptsMade

\* C34: during shutdown the shared browser is not closed while a capture is
\* still using a page of it.
C34_BrowserClosedAfterCaptures ==
  [][phase.at = "closing" /\ phase'.at = "stopping" => ~UsedByCapture(phase.browser)]_vars

\* -------------------------------------------- C35: one directory per job
\* the path lies in the directory written for job id
InDirectoryOf(path, id) == StartsWith(path, JobDirOf(id) \o <<"/">>)

\* C35: two distinct ids produced by enqueue have distinct artifact
\* directories, and an artifact request for id X reads only from the
\* directory of the job whose id is exactly X.
C35_DirectoryPerJob ==
  /\ \A a, b \in QueueIds : a # b => JobDirOf(a) # JobDirOf(b)
  /\ exchange.route = "GET /tasks/:id/artifacts/:type" /\ exchange.read # <<>> =>
       \A job \in QueueIds : InDirectoryOf(exchange.read, job) => exchange.id = job

\* a request for the id of a job was served from that job's directory, and
\* it is the only job whose directory the file is in
C35_Witness ==
  /\ exchange.route = "GET /tasks/:id/artifacts/:type"
  /\ exchange.status = 200
  /\ exchange.id = <<"a", "-", "b">>
  /\ { job \in QueueIds : InDirectoryOf(exchange.read, job) } = { <<"a", "-", "b">> }

\* ------------------------------------------------- C36: retention window
\* the job is Completed and its summary says it is kept beyond t
KeptBeyond(id, t) ==
  /\ jobs[id].state = "completed"
  /\ HasSummary(id)
  /\ t < SummaryOf(id).retentionExpiresAt

\* C36: for every completed job retentionExpiresAt is fetchedAt plus the
\* retention window, and no sweep that runs earlier than retentionExpiresAt
\* removes any of the job's three artifacts.
C36_KeptUntilExpiry ==
  [][\A id \in Ids :
       /\ (jobs[id].state = "completed" /\ HasSummary(id)) =>
            SummaryOf(id).retentionExpiresAt = SummaryOf(id).fetchedAt + retentionHours
       /\ (Sweep /\ KeptBeyond(id, now)) =>
            \A p \in SummaryArtifacts(id) : Exists(fs, p) => Exists(fs', p)]_vars

\* ------------------------------------------------ C37: enqueued payloads
\* the job data model: query a non-blank string, locale a string,
\* maxArticles an integer in [1,20], metadata a mapping
WellFormed(data) ==
  /\ data.query.t = "string" /\ Trim(data.query.s) # <<>>
  /\ data.locale.t = "string"
  /\ data.maxArticles.t = "number" /\ ~data.maxArticles.frac
  /\ 1 <= data.maxArticles.int /\ data.maxArticles.int <= 20
  /\ data.metadata.t = "object"

\* C37: every payload that Submit enqueues satisfies the job data model, and
\* no job created through Submit fails on its input in the executor.
C37_EnqueuedPayloadWellFormed ==
  \A id \in Ids :
    /\ WellFormed(jobs[id].data)
    /\ fakeMode => jobs[id].state # "failed"

\* -------------------------------------------------- C38: the gate is shut
\* C38: under every configuration of the shared secret, no request without a
\* credential gets through the gate to the Submit handler.
C38_GateNeverOpen ==
  [][requests' # requests =>
       \A h \in Headers :
         NoCredential(h) => ~(\E body \in QueueBodies : GatedSubmit(h, body))]_vars

\* ------------------------------------- C39: artifacts of completed jobs
\* this step answers an artifact request with a file
ServesFile ==
  /\ exchange' # exchange
  /\ exchange'.route = "GET /tasks/:id/artifacts/:type"
  /\ exchange'.status = 200

\* C39: an artifact request is answered with a file only for a job whose
\* state is Completed.
C39_ServedOnlyWhenCompleted ==
  [][ServesFile =>
       \E id \in Ids : IdChars(id) = exchange'.id /\ jobs[id].state = "completed"]_vars

====
